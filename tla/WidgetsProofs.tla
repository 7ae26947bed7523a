---------------------------- MODULE WidgetsProofs -----------------------------
(***************************************************************************)
(* Theorems about the widgets of jquery-ui.js that show and hide: dialogs, *)
(* tabs, accordions, menus, select menus and the date picker, for any      *)
(* number of them and of what they hold, and any actions of the user and   *)
(* of the page in between.                                                 *)
(***************************************************************************)
EXTENDS MCWidgets, FiniteSetTheorems, SequenceTheorems, WellFoundedInduction, TLAPS

-------------------------------------------------------------------------------
(* The date picker.                                                        *)

(* The nearest day is one at the least distance: distances are naturals.   *)
LEMMA LeastNat ==
  ASSUME NEW T, T \subseteq Nat, T # {}
  PROVE  \E x \in T : \A y \in T : x <= y
<1> DEFINE R == {ss \in Nat \X Nat : ss[1] < ss[2]}
<1>1. IsWellFoundedOn(R, Nat)
  BY NatLessThanWellFounded DEF OpToRel
<1> HIDE DEF R
<1>2. PICK x \in T : \A y \in T : ~ (<<y, x>> \in R)
  BY <1>1, WFMin
<1>3. \A y \in T : ~ (y < x)
  BY <1>2 DEF R
<1> QED BY <1>3

Fields_date ==
  {i \in [attached : BOOLEAN, disabled : BOOLEAN, narrow : BOOLEAN,
          text : Days \cup {NoDate, Garbage}, lastVal : Int, selected : Int, current : Int] :
     i.selected \in Allowed(i) \cup {NoDate}}

Pickers ==
  [of : [Fields -> Fields_date], cur : Fields \cup {NoField}, last : Fields \cup {NoField},
   drawn : Fields \cup {NoField}, showing : BOOLEAN, focus : Fields \cup {NoField},
   meddled : BOOLEAN]

(* The calendar is that of the field that has the focus, if any has. *)
SharedBy(s) ==
  /\ ~s.showing => s.last = NoField
  /\ s.showing /\ ~s.meddled =>
       /\ s.cur \in Fields /\ s.cur = s.last /\ s.cur = s.drawn
       /\ s.of[s.cur].attached
       /\ s.focus \in {s.cur, NoField}

WithDay(i, d, c, text) == [i EXCEPT !.selected = d, !.current = c, !.text = text]
WithField(s, f, i) == [s EXCEPT !.of[f] = i]

PickerCorrect(s) == s \in Pickers /\ SharedBy(s)

(* The days in the table are those of the field that the table was drawn   *)
(* for, as its range is now.                                               *)
TableCorrect ==
  /\ table.of \in Fields \cup {NoField} /\ picker.drawn \in {table.of, NoField}
  /\ IF table.of \in Fields THEN table.cells \subseteq Allowed(picker.of[table.of]) ELSE table.cells = {}

(* What leaves the table as it is lets no range become narrow.             *)
SameRange(s, t) ==
  /\ t.drawn \in {s.drawn, NoField}
  /\ \A g \in Fields : t.of[g].narrow => s.of[g].narrow

Keeps(s, t) == PickerCorrect(t) /\ SameRange(s, t)

TableFollows ==
  \/ \E f \in Fields : Redraw(f) /\ picker'.drawn = f
  \/ UNCHANGED table /\ SameRange(picker, picker')

PickerKept == PickerCorrect(picker)' /\ TableFollows

LEMMA DaysAre ==
  /\ Days \subseteq Int /\ Narrow \subseteq Days /\ Today \in Days /\ NoDate \in Int
  /\ \A d \in Days : d \in Nat
  /\ \A i : Allowed(i) \subseteq Days /\ Allowed(i) # {}
BY DatepickerAssumption DEF Allowed, NoDate

LEMMA RestrictIs ==
  ASSUME NEW i, NEW d \in Int
  PROVE  restrictMinMax(i, d) \in Allowed(i)
<1> DEFINE A == Allowed(i)
           far(e) == IF d < e THEN e - d ELSE d - e
           T == {far(e) : e \in A}
<1>1. A \subseteq Int /\ A # {}
  BY DaysAre
<1> HIDE DEF A
<1>2. T \subseteq Nat /\ T # {}
  <2>1. \A e \in A : far(e) \in Nat
    BY <1>1
  <2> HIDE DEF far
  <2> QED BY <1>1, <2>1
<1>3. PICK x \in T : \A y \in T : x <= y
  <2> HIDE DEF T
  <2> QED BY <1>2, LeastNat
<1>4. PICK e \in A : x = far(e)
  BY <1>3
<1>5. \A c \in A : far(e) <= far(c)
  BY <1>3, <1>4
<1>6. restrictMinMax(i, d) = CHOOSE w \in A : \A c \in A : far(w) <= far(c)
  BY DEF restrictMinMax, A
<1> HIDE DEF far
<1> QED BY <1>4, <1>5, <1>6 DEF A

LEMMA FieldDateIs ==
  ASSUME NEW i \in Fields_date
  PROVE  /\ i.attached \in BOOLEAN /\ i.disabled \in BOOLEAN /\ i.narrow \in BOOLEAN
         /\ i.text \in Days \cup {NoDate, Garbage} /\ i.lastVal \in Int /\ i.selected \in Int
         /\ i.current \in Int /\ i.selected \in Allowed(i) \cup {NoDate} /\ i.text \in Int
<1>1. i.text \in Int
  <2>1. i.text \in Days \/ i.text = NoDate \/ i.text = Garbage
    BY DEF Fields_date
  <2>2. Garbage \in Int
    BY DEF Garbage
  <2> QED BY <2>1, <2>2, DaysAre
<1> QED BY <1>1 DEF Fields_date

LEMMA SetDateFromFieldIs ==
  ASSUME NEW i \in Fields_date, NEW noDefault \in BOOLEAN, NEW j, j = setDateFromField(i, noDefault)
  PROVE  j \in Fields_date /\ j.attached = i.attached /\ j.narrow = i.narrow
<1> DEFINE default == restrictMinMax(i, Today)
           date == IF i.text \in Days THEN i.text ELSE default
           empty == i.text = NoDate \/ (noDefault /\ i.text = Garbage)
           chosen == restrictMinMax(i, date)
           now == IF empty THEN NoDate ELSE date
<1>1. default \in Days
  <2>1. Today \in Int
    BY DaysAre
  <2> QED BY <2>1, RestrictIs, DaysAre
<1>2. date \in Days /\ date \in Int
  BY <1>1, DaysAre
<1> HIDE DEF date
<1>3. chosen \in Allowed(i) /\ chosen \in Int
  BY <1>2, RestrictIs, DaysAre
<1>4. now \in Int
  BY <1>2, DaysAre
<1>5. j = IF i.text = i.lastVal THEN i
          ELSE [i EXCEPT !.lastVal = i.text, !.selected = chosen, !.current = now]
  BY DEF setDateFromField, date
<1>6. CASE i.text = i.lastVal
  BY <1>5, <1>6
<1>7. CASE i.text # i.lastVal
  <2>1. j = [i EXCEPT !.lastVal = i.text, !.selected = chosen, !.current = now]
    BY <1>5, <1>7
  <2>2. i.text \in Int
    BY FieldDateIs
  <2> HIDE DEF chosen, now
  <2>3. /\ j \in [attached : BOOLEAN, disabled : BOOLEAN, narrow : BOOLEAN,
                  text : Days \cup {NoDate, Garbage}, lastVal : Int, selected : Int, current : Int]
        /\ j.attached = i.attached /\ j.narrow = i.narrow /\ j.selected = chosen
    BY <1>3, <1>4, <2>1, <2>2 DEF Fields_date
  <2>4. Allowed(j) = Allowed(i)
    BY <2>3 DEF Allowed
  <2> QED BY <1>3, <2>3, <2>4 DEF Fields_date
<1> QED BY <1>6, <1>7

LEMMA SetDateIs ==
  ASSUME NEW i \in Fields_date, NEW narrow \in BOOLEAN, NEW d \in Int, d \in Int,
         NEW k, k = [i EXCEPT !.narrow = narrow],
         NEW j, j = setDate(k, d)
  PROVE  j \in Fields_date /\ j.attached = i.attached /\ j.narrow = narrow
<1> DEFINE date == restrictMinMax(k, IF d = NoDate THEN Today ELSE d)
           text == IF d = NoDate THEN d ELSE date
<1>1. /\ k \in [attached : BOOLEAN, disabled : BOOLEAN, narrow : BOOLEAN,
                text : Days \cup {NoDate, Garbage}, lastVal : Int, selected : Int, current : Int]
      /\ k.attached = i.attached /\ k.narrow = narrow
  BY DEF Fields_date
<1>2. date \in Allowed(k)
  <2>1. (IF d = NoDate THEN Today ELSE d) \in Int
    BY DaysAre
  <2> QED BY <2>1, RestrictIs
<1>3. date \in Days /\ date \in Int
  BY <1>2, DaysAre
<1>4. j = [k EXCEPT !.selected = date, !.current = date, !.text = text]
  BY DEF setDate
<1> HIDE DEF date
<1>5. text \in Days \cup {NoDate, Garbage}
  BY <1>3
<1> HIDE DEF text
<1>6. /\ j \in [attached : BOOLEAN, disabled : BOOLEAN, narrow : BOOLEAN,
                text : Days \cup {NoDate, Garbage}, lastVal : Int, selected : Int, current : Int]
      /\ j.attached = k.attached /\ j.narrow = k.narrow /\ j.selected = date
  BY <1>1, <1>3, <1>4, <1>5
<1>7. Allowed(j) = Allowed(k)
  BY <1>6 DEF Allowed
<1> QED BY <1>1, <1>2, <1>6, <1>7 DEF Fields_date

(* Another selected or current day, or another text. *)
LEMMA DayOfFieldIs ==
  ASSUME NEW i \in Fields_date, NEW text \in Days \cup {NoDate, Garbage}, NEW d \in Int,
         NEW c \in Int, d \in Allowed(i) \cup {NoDate},
         NEW j, j = WithDay(i, d, c, text)
  PROVE  j \in Fields_date /\ j.attached = i.attached /\ j.narrow = i.narrow
<1>1. /\ j \in [attached : BOOLEAN, disabled : BOOLEAN, narrow : BOOLEAN,
                text : Days \cup {NoDate, Garbage}, lastVal : Int, selected : Int, current : Int]
      /\ j.attached = i.attached /\ j.narrow = i.narrow /\ j.selected = d
  BY DEF Fields_date, WithDay
<1>2. Allowed(j) = Allowed(i)
  BY <1>1 DEF Allowed
<1> QED BY <1>1, <1>2 DEF Fields_date

(* One field is another. *)
LEMMA OfIs ==
  ASSUME NEW s \in Pickers, NEW f \in Fields, NEW i \in Fields_date,
         NEW t, t = WithField(s, f, i)
  PROVE  /\ t \in Pickers /\ t.of[f] = i /\ \A g \in Fields \ {f} : t.of[g] = s.of[g]
         /\ t.cur = s.cur /\ t.last = s.last /\ t.drawn = s.drawn /\ t.showing = s.showing
         /\ t.focus = s.focus /\ t.meddled = s.meddled
<1> DEFINE o == [s.of EXCEPT ![f] = i]
<1>1. s.of \in [Fields -> Fields_date]
  BY DEF Pickers
<1>2. o \in [Fields -> Fields_date] /\ o[f] = i /\ \A g \in Fields \ {f} : o[g] = s.of[g]
  BY <1>1
<1>3. t = [s EXCEPT !.of = o]
  BY DEF WithField
<1> HIDE DEF o
<1>4. t \in Pickers /\ t.of = o
  BY <1>2, <1>3 DEF Pickers
<1>5. /\ t.cur = s.cur /\ t.last = s.last /\ t.drawn = s.drawn /\ t.showing = s.showing
      /\ t.focus = s.focus /\ t.meddled = s.meddled
  BY <1>3 DEF Pickers
<1> QED BY <1>2, <1>4, <1>5

LEMMA HideIs ==
  ASSUME NEW s \in Pickers, NEW t, t = hideDatepicker(s)
  PROVE  /\ t \in Pickers /\ t.of = s.of /\ t.cur = s.cur /\ t.drawn = s.drawn /\ t.focus = s.focus
         /\ s.cur # NoField /\ s.showing => ~t.showing /\ t.last = NoField
         /\ s.cur = NoField \/ ~s.showing => t = s
<1>1. CASE s.cur = NoField \/ ~s.showing
  <2>1. t = s
    BY <1>1 DEF hideDatepicker
  <2> QED BY <1>1, <2>1
<1>2. CASE s.cur # NoField /\ s.showing
  <2>1. t = [s EXCEPT !.showing = FALSE, !.last = NoField, !.meddled = FALSE]
    BY <1>2 DEF hideDatepicker
  <2>2. t \in Pickers /\ t.showing = FALSE /\ t.last = NoField
    BY <2>1 DEF Pickers
  <2>3. t.of = s.of /\ t.cur = s.cur /\ t.drawn = s.drawn /\ t.focus = s.focus
    BY <2>1 DEF Pickers
  <2> QED BY <1>2, <2>2, <2>3
<1> QED BY <1>1, <1>2

LEMMA HideKeeps ==
  ASSUME NEW s, PickerCorrect(s), NEW t, t = hideDatepicker(s)
  PROVE  PickerCorrect(t) /\ (t.showing => t.meddled) /\ SameRange(s, t)
<1>1. s \in Pickers /\ SharedBy(s)
  BY DEF PickerCorrect
<1>2. /\ t \in Pickers /\ t.of = s.of /\ t.drawn = s.drawn
      /\ s.cur # NoField /\ s.showing => ~t.showing /\ t.last = NoField
      /\ s.cur = NoField \/ ~s.showing => t = s
  BY <1>1, HideIs
<1>3. s.showing /\ ~s.meddled => s.cur # NoField
  BY <1>1, DatepickerAssumption DEF SharedBy
<1> QED BY <1>1, <1>2, <1>3 DEF PickerCorrect, SharedBy, SameRange

(* A field changes that stays attached. *)
LEMMA OfKeeps ==
  ASSUME NEW s, PickerCorrect(s), NEW f \in Fields, NEW i \in Fields_date,
         s.of[f].attached => i.attached, NEW t, t = WithField(s, f, i)
  PROVE  PickerCorrect(t) /\ t.of[f] = i /\ ((i.narrow => s.of[f].narrow) => SameRange(s, t))
<1>1. s \in Pickers /\ SharedBy(s)
  BY DEF PickerCorrect
<1>2. /\ t \in Pickers /\ t.of[f] = i /\ \A g \in Fields \ {f} : t.of[g] = s.of[g]
      /\ t.cur = s.cur /\ t.last = s.last /\ t.drawn = s.drawn /\ t.showing = s.showing
      /\ t.focus = s.focus /\ t.meddled = s.meddled
  <2>1. s \in Pickers
    BY <1>1
  <2> QED BY <2>1, OfIs
<1>3. s.cur \in Fields /\ s.of[s.cur].attached => t.of[t.cur].attached
  BY <1>2
<1> QED BY <1>1, <1>2, <1>3 DEF PickerCorrect, SharedBy, SameRange

(* The calendar is drawn for, and the focus goes to, its own field. *)
LEMMA DrawnKeeps ==
  ASSUME NEW s, PickerCorrect(s), NEW f \in Fields, s.showing /\ ~s.meddled => s.cur = f,
         NEW t, t = [s EXCEPT !.drawn = f] \/ t = [s EXCEPT !.focus = f]
  PROVE  PickerCorrect(t)
<1>1. s \in Pickers /\ SharedBy(s)
  BY DEF PickerCorrect
<1>2. /\ t \in Pickers /\ t.of = s.of /\ t.cur = s.cur /\ t.last = s.last
      /\ t.showing = s.showing /\ t.meddled = s.meddled
      /\ t.drawn \in {s.drawn, f} /\ t.focus \in {s.focus, f}
  BY <1>1 DEF Pickers
<1> QED BY <1>1, <1>2 DEF PickerCorrect, SharedBy

LEMMA FocusIsCur ==
  ASSUME PickerCorrect(picker), NEW f \in Fields, picker.focus = f
  PROVE  picker.showing /\ ~picker.meddled => picker.cur = f
BY DatepickerAssumption DEF PickerCorrect, SharedBy

LEMMA OfPicker ==
  ASSUME NEW s, PickerCorrect(s), NEW f \in Fields
  PROVE  s.of[f] \in Fields_date
BY DEF PickerCorrect, Pickers

LEMMA LastValIs ==
  ASSUME NEW i \in Fields_date, NEW j, j = [i EXCEPT !.lastVal = Unread]
  PROVE  j \in Fields_date /\ j.attached = i.attached
<1>1. Unread \in Int
  BY DEF Unread
<1>2. /\ j \in [attached : BOOLEAN, disabled : BOOLEAN, narrow : BOOLEAN,
                text : Days \cup {NoDate, Garbage}, lastVal : Int, selected : Int, current : Int]
      /\ j.attached = i.attached /\ j.narrow = i.narrow /\ j.selected = i.selected
  BY <1>1 DEF Fields_date
<1>3. Allowed(j) = Allowed(i)
  BY <1>2 DEF Allowed
<1> QED BY <1>2, <1>3 DEF Fields_date

LEMMA ShowKeeps ==
  ASSUME NEW s, PickerCorrect(s), NEW f \in Fields, NEW refuses \in BOOLEAN,
         s.of[f].attached, s.showing /\ ~s.meddled => s.cur = f,
         NEW t, t = showDatepicker(s, f, refuses)
  PROVE  /\ PickerCorrect(t) /\ (t.showing /\ ~t.meddled => t.cur = f)
         /\ IF willShow(s, f, refuses) THEN t.drawn = f ELSE SameRange(s, t)
<1> DEFINE free == IF s.cur \notin {NoField, f} /\ s.of[s.cur].attached THEN hideDatepicker(s) ELSE s
           i == s.of[f]
           j == [i EXCEPT !.lastVal = Unread]
           k == setDateFromField(j, FALSE)
<1>1. /\ PickerCorrect(free) /\ (free.showing /\ ~free.meddled => free.cur = f) /\ free.of = s.of
      /\ SameRange(s, free)
  <2>1. CASE free = s
    BY <2>1 DEF SameRange
  <2>2. CASE free = hideDatepicker(s)
    <3> HIDE DEF free
    <3>1. PickerCorrect(free) /\ (free.showing => free.meddled) /\ SameRange(s, free)
      BY <2>2, HideKeeps
    <3>2. free.of = s.of
      BY <2>2, HideIs DEF PickerCorrect
    <3> QED BY <3>1, <3>2
  <2> QED BY <2>1, <2>2
<1>2. t = IF s.of[f].disabled \/ s.last = f THEN s
          ELSE IF refuses THEN free
          ELSE [free EXCEPT !.of[f] = setDateFromField([free.of[f] EXCEPT !.lastVal = Unread], FALSE),
                            !.last = f, !.drawn = f, !.showing = TRUE, !.cur = f,
                            !.focus = f, !.meddled = FALSE]
  BY DEF showDatepicker
<1> HIDE DEF free
<1>3. CASE s.of[f].disabled \/ s.last = f
  BY <1>2, <1>3 DEF SameRange, willShow
<1>4. CASE ~s.of[f].disabled /\ s.last # f /\ refuses
  BY <1>1, <1>2, <1>4 DEF willShow
<1>5. CASE willShow(s, f, refuses)
  <2>0. t = [free EXCEPT !.of[f] = k, !.last = f, !.drawn = f, !.showing = TRUE, !.cur = f,
                         !.focus = f, !.meddled = FALSE]
    BY <1>1, <1>2, <1>5 DEF willShow
  <2>1. i \in Fields_date
    BY OfPicker
  <2>2. j \in Fields_date /\ j.attached = i.attached
    <3> HIDE DEF i
    <3> QED BY <2>1, LastValIs
  <2> HIDE DEF j
  <2>3. k \in Fields_date /\ k.attached = j.attached
    BY <2>2, SetDateFromFieldIs
  <2> HIDE DEF k
  <2> DEFINE o == WithField(free, f, k)
  <2>4. o \in Pickers /\ o.of[f] = k
    <3>1. free \in Pickers
      BY <1>1 DEF PickerCorrect
    <3>2. k \in Fields_date
      BY <2>3
    <3> QED BY <3>1, <3>2, OfIs
  <2>5. t = [o EXCEPT !.last = f, !.drawn = f, !.showing = TRUE, !.cur = f,
                      !.focus = f, !.meddled = FALSE]
    BY <2>0 DEF WithField
  <2> HIDE DEF o
  <2>6. t \in Pickers /\ t.showing = TRUE
    BY <2>4, <2>5 DEF Pickers
  <2>7. t.of = o.of /\ t.last = f /\ t.drawn = f /\ t.cur = f /\ t.focus = f
    BY <2>4, <2>5 DEF Pickers
  <2>8. t.of[t.cur].attached
    BY <2>2, <2>3, <2>4, <2>7
  <2> QED BY <1>5, <2>6, <2>7, <2>8 DEF PickerCorrect, SharedBy
<1> QED BY <1>3, <1>4, <1>5 DEF willShow

LEMMA SelectDateKeeps ==
  ASSUME NEW s, PickerCorrect(s), NEW f \in Fields, NEW text \in Days \cup {NoDate, Garbage},
         NEW t, t = selectDate(s, f, text)
  PROVE  Keeps(s, t)
<1> DEFINE i == s.of[f]
           j == [i EXCEPT !.text = text]
           u == WithField(s, f, j)
           h == hideDatepicker(u)
<1>1. t = [h EXCEPT !.last = NoField]
  BY DEF selectDate, WithField
<1>2. i \in Fields_date
  BY OfPicker
<1>3. j \in Fields_date /\ j.attached = i.attached /\ j.narrow = i.narrow
  <2>1. j = [i EXCEPT !.selected = i.selected, !.current = i.current, !.text = text]
    BY <1>2 DEF Fields_date
  <2>2. i.selected \in Int /\ i.current \in Int /\ i.selected \in Allowed(i) \cup {NoDate}
    BY <1>2, FieldDateIs
  <2> DEFINE d == i.selected
             c == i.current
  <2>3. j = WithDay(i, d, c, text)
    BY <2>1 DEF WithDay
  <2>4. d \in Int /\ c \in Int /\ d \in Allowed(i) \cup {NoDate}
    BY <2>2
  <2> HIDE DEF i, j, d, c
  <2> QED BY <1>2, <2>3, <2>4, DayOfFieldIs
<1> HIDE DEF j
<1>4. PickerCorrect(u) /\ SameRange(s, u)
  BY <1>3, OfKeeps
<1> HIDE DEF u
<1>5. PickerCorrect(h) /\ (h.showing => h.meddled) /\ SameRange(u, h)
  BY <1>4, HideKeeps
<1> HIDE DEF h
<1>6. h \in Pickers
  BY <1>5 DEF PickerCorrect
<1>7. /\ t \in Pickers /\ t.last = NoField /\ t.showing = h.showing /\ t.meddled = h.meddled
      /\ t.of = h.of /\ t.drawn = h.drawn
  BY <1>1, <1>6 DEF Pickers
<1>8. PickerCorrect(t)
  BY <1>5, <1>7 DEF PickerCorrect, SharedBy
<1>9. SameRange(s, t)
  BY <1>4, <1>5, <1>7 DEF SameRange
<1> QED BY <1>8, <1>9 DEF Keeps

LEMMA SelectDayKeeps ==
  ASSUME NEW s, PickerCorrect(s), NEW f \in Fields, NEW d \in Allowed(s.of[f]),
         NEW t, t = selectDay(s, f, d)
  PROVE  Keeps(s, t)
<1> DEFINE i == s.of[f]
           j == [i EXCEPT !.selected = d, !.current = d]
           u == WithField(s, f, j)
<1>1. CASE s.of[f].disabled
  BY <1>1 DEF selectDay, Keeps, SameRange
<1>2. CASE ~s.of[f].disabled
  <2>1. t = selectDate([s EXCEPT !.of[f].selected = d, !.of[f].current = d], f, d)
    BY <1>2 DEF selectDay
  <2>2. i \in Fields_date
    BY OfPicker
  <2>3. s.of \in [Fields -> Fields_date] /\ s \in Pickers
    BY DEF PickerCorrect, Pickers
  <2>4. u = [s EXCEPT !.of[f].selected = d, !.of[f].current = d]
    BY <2>2, <2>3 DEF Pickers, Fields_date, WithField
  <2>5. d \in Days /\ d \in Int
    BY DaysAre
  <2>6. i.text \in Days \cup {NoDate, Garbage} /\ j = [i EXCEPT !.selected = d, !.current = d, !.text = i.text]
    BY <2>2 DEF Fields_date
  <2>7. j \in Fields_date /\ j.attached = i.attached /\ j.narrow = i.narrow
    <3> DEFINE text == i.text
    <3>1. text \in Days \cup {NoDate, Garbage} /\ d \in Int /\ d \in Allowed(i) \cup {NoDate}
      BY <2>5, <2>6
    <3>2. j = WithDay(i, d, d, text)
      BY <2>6 DEF WithDay
    <3> HIDE DEF i, j, text
    <3> QED BY <2>2, <3>1, <3>2, DayOfFieldIs
  <2> HIDE DEF j
  <2>8. PickerCorrect(u) /\ SameRange(s, u)
    BY <2>7, OfKeeps
  <2>9. t = selectDate(u, f, d)
    BY <2>1, <2>4
  <2> HIDE DEF u
  <2>10. Keeps(u, t)
    BY <2>5, <2>8, <2>9, SelectDateKeeps
  <2> QED BY <2>8, <2>10 DEF Keeps, SameRange
<1> QED BY <1>1, <1>2

LEMMA FocusFieldStep ==
  ASSUME PickerCorrect(picker), NEW f \in Fields, NEW refuses \in BOOLEAN, FocusField(f, refuses)
  PROVE  PickerKept
<1> DEFINE s == IF picker.cur # f THEN hideDatepicker(picker) ELSE picker
           u == showDatepicker(s, f, refuses)
           t == picker'
<1>1. /\ t = [u EXCEPT !.focus = f] /\ picker.of[f].attached
      /\ IF willShow(s, f, refuses) THEN Redraw(f) ELSE UNCHANGED table
  BY DEF FocusField
<1>2. /\ PickerCorrect(s) /\ s.of = picker.of /\ (s.showing /\ ~s.meddled => s.cur = f)
      /\ SameRange(picker, s)
  <2>1. CASE picker.cur # f
    <3>1. s = hideDatepicker(picker) /\ picker \in Pickers
      BY <2>1 DEF PickerCorrect
    <3> HIDE DEF s
    <3>2. PickerCorrect(s) /\ (s.showing => s.meddled) /\ SameRange(picker, s)
      BY <3>1, HideKeeps
    <3>3. s.of = picker.of
      BY <3>1, HideIs
    <3> QED BY <3>2, <3>3
  <2>2. CASE picker.cur = f
    BY <2>2 DEF SameRange
  <2> QED BY <2>1, <2>2
<1> HIDE DEF s
<1>3. /\ PickerCorrect(u) /\ (u.showing /\ ~u.meddled => u.cur = f)
      /\ IF willShow(s, f, refuses) THEN u.drawn = f ELSE SameRange(s, u)
  BY <1>1, <1>2, ShowKeeps
<1> HIDE DEF u, t
<1>4. PickerCorrect(t)
  BY <1>1, <1>3, DrawnKeeps
<1>5. t.of = u.of /\ t.drawn = u.drawn
  BY <1>1, <1>3 DEF PickerCorrect, Pickers
<1>6. IF willShow(s, f, refuses) THEN t.drawn = f ELSE SameRange(picker, t)
  BY <1>2, <1>3, <1>5 DEF SameRange
<1>7. TableFollows
  BY <1>1, <1>6 DEF TableFollows, t
<1> QED BY <1>4, <1>7 DEF PickerKept, t

LEMMA PressElsewhereStep ==
  ASSUME PickerCorrect(picker), PressElsewhere
  PROVE  PickerKept
<1> DEFINE h == hideDatepicker(picker)
           t == picker'
<1>1. t = [h EXCEPT !.focus = NoField] /\ UNCHANGED table
  BY DEF PressElsewhere
<1>2. PickerCorrect(h) /\ SameRange(picker, h)
  BY HideKeeps
<1> HIDE DEF h, t
<1>3. h \in Pickers /\ SharedBy(h)
  BY <1>2 DEF PickerCorrect
<1>4. /\ t \in Pickers /\ t.of = h.of /\ t.cur = h.cur /\ t.last = h.last /\ t.drawn = h.drawn
      /\ t.showing = h.showing /\ t.meddled = h.meddled /\ t.focus = NoField
  BY <1>1, <1>3 DEF Pickers
<1>5. PickerCorrect(t)
  BY <1>3, <1>4 DEF PickerCorrect, SharedBy
<1>6. SameRange(picker, t)
  BY <1>2, <1>4 DEF SameRange
<1> QED BY <1>1, <1>5, <1>6 DEF PickerKept, TableFollows, t

LEMMA CloseCalendarStep ==
  ASSUME PickerCorrect(picker), CloseCalendar
  PROVE  PickerKept
<1> DEFINE t == picker'
<1>1. t = hideDatepicker(picker) /\ UNCHANGED table
  BY DEF CloseCalendar
<1> HIDE DEF t
<1>2. PickerCorrect(t) /\ SameRange(picker, t)
  BY <1>1, HideKeeps
<1> QED BY <1>1, <1>2 DEF PickerKept, TableFollows, t

LEMMA OpenByKeyStep ==
  ASSUME PickerCorrect(picker), NEW f \in Fields, NEW refuses \in BOOLEAN, OpenByKey(f, refuses)
  PROVE  PickerKept
<1> DEFINE t == picker'
<1>1. /\ t = showDatepicker(picker, f, refuses) /\ picker.of[f].attached /\ ~picker.showing
      /\ IF willShow(picker, f, refuses) THEN Redraw(f) ELSE UNCHANGED table
  BY DEF OpenByKey, CanType
<1> HIDE DEF t
<1>2. /\ PickerCorrect(t)
      /\ IF willShow(picker, f, refuses) THEN t.drawn = f ELSE SameRange(picker, t)
  BY <1>1, ShowKeeps
<1> QED BY <1>1, <1>2 DEF PickerKept, TableFollows, t

LEMMA ClickDayStep ==
  ASSUME PickerCorrect(picker), TableCorrect, NEW d \in Days, ClickDay(d)
  PROVE  PickerKept
<1> DEFINE f == table.of
           t == picker'
<1>1. t = selectDay(picker, f, d) /\ UNCHANGED table /\ d \in table.cells
  BY DEF ClickDay
<1>2. f \in Fields /\ d \in Allowed(picker.of[f])
  BY <1>1 DEF TableCorrect
<1> HIDE DEF f, t
<1>3. Keeps(picker, t)
  BY <1>1, <1>2, SelectDayKeeps
<1> QED BY <1>1, <1>3 DEF PickerKept, Keeps, TableFollows, t

(* Another day is selected. *)
LEMMA SelectedKeeps ==
  ASSUME PickerCorrect(picker), NEW f \in Fields, NEW d \in Int,
         NEW t, t = [picker EXCEPT !.of[f].selected = restrictMinMax(picker.of[f], d)]
  PROVE  PickerCorrect(t)
<1> DEFINE i == picker.of[f]
           e == restrictMinMax(i, d)
           c == i.current
           text == i.text
           j == WithDay(i, e, c, text)
<1>1. i \in Fields_date /\ picker.of \in [Fields -> Fields_date] /\ picker \in Pickers
  BY DEF PickerCorrect, Pickers
<1>2. t = [picker EXCEPT !.of[f].selected = e]
  OBVIOUS
<1>3. e \in Allowed(i) /\ e \in Int
  BY RestrictIs, DaysAre
<1> HIDE DEF e
<1>4. c \in Int /\ text \in Days \cup {NoDate, Garbage} /\ j = [i EXCEPT !.selected = e]
  BY <1>1 DEF Fields_date, WithDay
<1>5. t = WithField(picker, f, j)
  BY <1>1, <1>2, <1>4 DEF Pickers, WithField
<1>6. j \in Fields_date /\ j.attached = i.attached
  <2> HIDE DEF i, c, text
  <2> QED BY <1>1, <1>3, <1>4, DayOfFieldIs
<1> HIDE DEF j
<1> QED BY <1>5, <1>6, OfKeeps

LEMMA TurnMonthStep ==
  ASSUME PickerCorrect(picker), TableCorrect, NEW month, TurnMonth(month)
  PROVE  PickerKept
<1> DEFINE f == table.of
           t == picker'
<1>1. f \in Fields /\ Redraw(f)
  BY DEF TurnMonth, TableCorrect
<1>2. PICK d \in Days :
        t = [[picker EXCEPT !.of[f] = [picker.of[f] EXCEPT !.selected = restrictMinMax(picker.of[f], d)]]
               EXCEPT !.drawn = f]
  BY DEF TurnMonth, adjustMonth, updateDatepicker
<1>3. picker.of \in [Fields -> Fields_date] /\ picker \in Pickers
  BY DEF PickerCorrect, Pickers
<1> HIDE DEF f, t
<1> DEFINE u == [picker EXCEPT !.of[f].selected = restrictMinMax(picker.of[f], d)]
<1>4. t = [u EXCEPT !.drawn = f]
  BY <1>1, <1>2, <1>3 DEF Pickers
<1>5. d \in Int
  BY DaysAre
<1>6. PickerCorrect(u)
  BY <1>1, <1>5, SelectedKeeps
<1>7. u.showing = picker.showing /\ u.meddled = picker.meddled /\ u.cur = picker.cur
  BY <1>3 DEF Pickers
<1>8. picker.showing /\ ~picker.meddled => picker.cur = f
  BY DatepickerAssumption DEF PickerCorrect, SharedBy, TableCorrect, f
<1> HIDE DEF u
<1>9. PickerCorrect(t)
  BY <1>1, <1>4, <1>6, <1>7, <1>8, DrawnKeeps
<1>10. t.drawn = f
  BY <1>4, <1>6 DEF PickerCorrect, Pickers
<1> QED BY <1>1, <1>9, <1>10 DEF PickerKept, TableFollows, t

LEMMA KeyDayStep ==
  ASSUME PickerCorrect(picker), NEW f \in Fields, NEW step \in {-1, 1}, KeyDay(f, step)
  PROVE  PickerKept
<1> DEFINE d == picker.of[f].selected + step
           u == [picker EXCEPT !.of[f].selected = restrictMinMax(picker.of[f], d)]
           t == picker'
<1>1. t = [u EXCEPT !.drawn = f] /\ picker.focus = f /\ Redraw(f)
  BY DEF KeyDay, updateDatepicker, CanType
<1>2. d \in Int
  BY OfPicker, FieldDateIs
<1> HIDE DEF d
<1>3. PickerCorrect(u)
  BY <1>2, SelectedKeeps
<1>4. u.showing = picker.showing /\ u.meddled = picker.meddled /\ u.cur = picker.cur
  BY DEF PickerCorrect, Pickers
<1>5. picker.showing /\ ~picker.meddled => picker.cur = f
  BY <1>1, FocusIsCur
<1> HIDE DEF u, t
<1>6. PickerCorrect(t)
  BY <1>1, <1>3, <1>4, <1>5, DrawnKeeps
<1>7. t.drawn = f
  BY <1>1, <1>3 DEF PickerCorrect, Pickers
<1> QED BY <1>1, <1>6, <1>7 DEF PickerKept, TableFollows, t

LEMMA EnterDayStep ==
  ASSUME PickerCorrect(picker), NEW f \in Fields, NEW takes \in BOOLEAN, EnterDay(f, takes)
  PROVE  PickerKept
<1> DEFINE d == picker.of[f].selected
           t == picker'
<1>1. (t = selectDay(picker, f, d) /\ d # NoDate) \/ t = hideDatepicker(picker)
  BY DEF EnterDay
<1>2. UNCHANGED table
  BY DEF EnterDay
<1>3. d # NoDate => d \in Allowed(picker.of[f])
  BY OfPicker, FieldDateIs
<1> HIDE DEF d, t
<1>4. ASSUME t = selectDay(picker, f, d), d # NoDate PROVE Keeps(picker, t)
  BY <1>3, <1>4, SelectDayKeeps
<1>5. ASSUME t = hideDatepicker(picker) PROVE Keeps(picker, t)
  BY <1>5, HideKeeps DEF Keeps
<1>6. Keeps(picker, t)
  BY <1>1, <1>4, <1>5
<1> QED BY <1>2, <1>6 DEF PickerKept, Keeps, TableFollows, t

LEMMA ClearByKeyStep ==
  ASSUME PickerCorrect(picker), NEW f \in Fields, ClearByKey(f)
  PROVE  PickerKept
<1> DEFINE t == picker'
<1>1. t = selectDate(picker, f, NoDate) /\ UNCHANGED table
  BY DEF ClearByKey
<1> HIDE DEF t
<1>2. Keeps(picker, t)
  BY <1>1, SelectDateKeeps
<1> QED BY <1>1, <1>2 DEF PickerKept, Keeps, TableFollows, t

LEMMA TypeTextStep ==
  ASSUME PickerCorrect(picker), NEW f \in Fields, NEW text \in Days \cup {NoDate, Garbage},
         TypeText(f, text)
  PROVE  PickerKept
<1> DEFINE i == picker.of[f]
           j == [i EXCEPT !.text = text]
           typed == WithField(picker, f, j)
           k == setDateFromField(j, FALSE)
           u == WithField(typed, f, k)
           t == picker'
<1>1. i \in Fields_date /\ picker.of \in [Fields -> Fields_date] /\ picker \in Pickers
  BY DEF PickerCorrect, Pickers
<1>2. picker.focus = f
  BY DEF TypeText, CanType
<1>3. j \in Fields_date /\ j.attached = i.attached /\ j.narrow = i.narrow
  <2> DEFINE d == i.selected
             c == i.current
  <2>1. j = WithDay(i, d, c, text)
    BY <1>1 DEF WithDay, Fields_date
  <2>2. d \in Int /\ c \in Int /\ d \in Allowed(i) \cup {NoDate}
    BY <1>1, FieldDateIs
  <2> HIDE DEF i, j, d, c
  <2> QED BY <1>1, <2>1, <2>2, DayOfFieldIs
<1>4. typed = [picker EXCEPT !.of[f].text = text]
  BY <1>1 DEF WithField, Pickers
<1>5. \/ t = typed /\ UNCHANGED table
      \/ /\ t = [[typed EXCEPT !.of[f] = setDateFromField(typed.of[f], FALSE)] EXCEPT !.drawn = f]
         /\ Redraw(f)
  BY <1>4 DEF TypeText, updateDatepicker
<1> HIDE DEF j
<1>6. PickerCorrect(typed) /\ typed.of[f] = j /\ SameRange(picker, typed)
  BY <1>3, OfKeeps
<1>7. /\ typed.showing = picker.showing /\ typed.meddled = picker.meddled /\ typed.cur = picker.cur
  BY <1>1, <1>3, OfIs
<1> HIDE DEF typed
<1>8. k \in Fields_date /\ k.attached = j.attached
  BY <1>3, SetDateFromFieldIs
<1> HIDE DEF k
<1>9. PickerCorrect(u)
  BY <1>6, <1>8, OfKeeps
<1>10. u.showing = typed.showing /\ u.meddled = typed.meddled /\ u.cur = typed.cur
  <2>1. typed \in Pickers
    BY <1>6 DEF PickerCorrect
  <2> QED BY <2>1, <1>8, OfIs
<1>11. (t = typed /\ UNCHANGED table) \/ (t = [u EXCEPT !.drawn = f] /\ Redraw(f))
  BY <1>5, <1>6 DEF WithField, k
<1>12. u.showing /\ ~u.meddled => u.cur = f
  BY <1>2, <1>7, <1>10, FocusIsCur
<1> HIDE DEF u, t
<1>13. ASSUME t = typed, UNCHANGED table PROVE PickerKept
  BY <1>6, <1>13 DEF PickerKept, TableFollows, t
<1>14. ASSUME t = [u EXCEPT !.drawn = f], Redraw(f) PROVE PickerKept
  <2>1. PickerCorrect(t)
    BY <1>9, <1>12, <1>14, DrawnKeeps
  <2>2. t.drawn = f
    BY <1>9, <1>14 DEF PickerCorrect, Pickers
  <2> QED BY <1>14, <2>1, <2>2 DEF PickerKept, TableFollows, t
<1> QED BY <1>11, <1>13, <1>14

(* The page has touched a field. *)
LEMMA MeddledKeeps ==
  ASSUME NEW s, PickerCorrect(s), NEW f \in Fields,
         NEW t \in Pickers, t.of = s.of, t.showing = s.showing, t.last = s.last,
         s.showing => t.meddled
  PROVE  PickerCorrect(t)
BY DEF PickerCorrect, SharedBy

LEMMA SetDateStep ==
  ASSUME PickerCorrect(picker), NEW f \in Fields, NEW d \in Days \cup {NoDate}, SetDate(f, d)
  PROVE  PickerKept
<1> DEFINE i == picker.of[f]
           j == setDate(i, d)
           u == WithField(picker, f, j)
           m == u.meddled \/ picker.showing
           t == picker'
<1>1. i \in Fields_date /\ d \in Int
  BY OfPicker, DaysAre
<1>2. j \in Fields_date /\ j.attached = i.attached
  <2>1. i.narrow \in BOOLEAN /\ i = [i EXCEPT !.narrow = i.narrow]
    BY <1>1 DEF Fields_date
  <2> DEFINE n == i.narrow
  <2>2. n \in BOOLEAN /\ i = [i EXCEPT !.narrow = n]
    BY <2>1
  <2> HIDE DEF i, n
  <2>3. j = setDate(i, d)
    OBVIOUS
  <2> HIDE DEF j
  <2> QED BY <1>1, <2>2, <2>3, SetDateIs
<1>3. t = [[u EXCEPT !.drawn = f] EXCEPT !.meddled = m] /\ Redraw(f)
  BY DEF SetDate, Meddled, updateDatepicker, WithField, PickerCorrect, Pickers
<1>4. PickerCorrect(u)
  <2> HIDE DEF j
  <2> QED BY <1>2, OfKeeps
<1>5. u.showing = picker.showing
  <2>1. picker \in Pickers
    BY DEF PickerCorrect
  <2> HIDE DEF j
  <2> QED BY <1>2, <2>1, OfIs
<1>6. u \in Pickers
  BY <1>4 DEF PickerCorrect
<1>7. m \in BOOLEAN /\ (u.showing => m)
  BY <1>5, <1>6 DEF Pickers
<1> HIDE DEF u, m, t
<1>8. /\ t \in Pickers /\ t.of = u.of /\ t.showing = u.showing /\ t.last = u.last /\ t.meddled = m
      /\ t.drawn = f
  BY <1>3, <1>6, <1>7 DEF Pickers
<1>9. PickerCorrect(t)
  BY <1>4, <1>7, <1>8, MeddledKeeps
<1> QED BY <1>3, <1>8, <1>9 DEF PickerKept, TableFollows, t

LEMMA SetRangeStep ==
  ASSUME PickerCorrect(picker), NEW f \in Fields, NEW narrow \in BOOLEAN, SetRange(f, narrow)
  PROVE  PickerKept
<1> DEFINE s == IF picker.cur = f THEN hideDatepicker(picker) ELSE picker
           i == setDateFromField(s.of[f], TRUE)
           d == getDate(i)
           k == [i EXCEPT !.narrow = narrow]
           j == setDate(k, d)
           u == WithField(s, f, j)
           m == s.showing
           t == picker'
<1>1. t = [[u EXCEPT !.drawn = f] EXCEPT !.meddled = m] /\ Redraw(f)
  BY DEF SetRange, updateDatepicker, WithField
<1>2. PickerCorrect(s)
  <2>1. CASE picker.cur = f
    <3>1. s = hideDatepicker(picker)
      BY <2>1
    <3> HIDE DEF s
    <3> QED BY <3>1, HideKeeps
  <2>2. CASE picker.cur # f
    BY <2>2
  <2> QED BY <2>1, <2>2
<1> HIDE DEF s
<1>3. s.of[f] \in Fields_date /\ s \in Pickers
  BY <1>2, OfPicker DEF PickerCorrect
<1>4. i \in Fields_date /\ i.attached = s.of[f].attached
  <2> DEFINE i0 == s.of[f]
  <2>1. i0 \in Fields_date /\ i = setDateFromField(i0, TRUE)
    BY <1>3
  <2> HIDE DEF i0, i
  <2> QED BY <2>1, SetDateFromFieldIs DEF i0
<1> HIDE DEF i
<1>5. d \in Int
  BY <1>4, FieldDateIs, DaysAre DEF getDate
<1> HIDE DEF d
<1>6. j \in Fields_date /\ j.attached = i.attached
  BY <1>4, <1>5, SetDateIs
<1> HIDE DEF j
<1>7. PickerCorrect(u)
  BY <1>2, <1>4, <1>6, OfKeeps
<1>8. u.showing = s.showing
  BY <1>3, <1>6, OfIs
<1>9. u \in Pickers
  BY <1>7 DEF PickerCorrect
<1>10. m \in BOOLEAN /\ (u.showing => m)
  BY <1>3, <1>8 DEF Pickers
<1> HIDE DEF u, m, t
<1>11. /\ t \in Pickers /\ t.of = u.of /\ t.showing = u.showing /\ t.last = u.last /\ t.meddled = m
       /\ t.drawn = f
  BY <1>1, <1>9, <1>10 DEF Pickers
<1>12. PickerCorrect(t)
  BY <1>7, <1>10, <1>11, MeddledKeeps
<1> QED BY <1>1, <1>11, <1>12 DEF PickerKept, TableFollows, t

(* A field is switched off, or goes, or comes. *)
LEMMA FlagsAre ==
  ASSUME NEW i \in Fields_date, NEW attached \in BOOLEAN, NEW disabled \in BOOLEAN,
         NEW j, j = [i EXCEPT !.attached = attached, !.disabled = disabled]
  PROVE  j \in Fields_date /\ j.attached = attached
<1>1. /\ j \in [attached : BOOLEAN, disabled : BOOLEAN, narrow : BOOLEAN,
                text : Days \cup {NoDate, Garbage}, lastVal : Int, selected : Int, current : Int]
      /\ j.attached = attached /\ j.narrow = i.narrow /\ j.selected = i.selected
  BY DEF Fields_date
<1>2. Allowed(j) = Allowed(i)
  BY <1>1 DEF Allowed
<1> QED BY <1>1, <1>2 DEF Fields_date

LEMMA DisableFieldStep ==
  ASSUME PickerCorrect(picker), NEW f \in Fields, NEW disabled \in BOOLEAN, DisableField(f, disabled)
  PROVE  PickerKept
<1> DEFINE i == picker.of[f]
           j == [i EXCEPT !.disabled = disabled]
           u == WithField(picker, f, j)
           g == IF disabled /\ picker.focus = f THEN NoField ELSE picker.focus
           t == picker'
<1>1. i \in Fields_date /\ picker \in Pickers /\ picker.of \in [Fields -> Fields_date]
  BY DEF PickerCorrect, Pickers
<1>2. j \in Fields_date /\ j.attached = i.attached /\ j.narrow = i.narrow
  <2> DEFINE a == i.attached
  <2>0. j.narrow = i.narrow
    BY <1>1 DEF Fields_date
  <2>1. a \in BOOLEAN /\ j = [i EXCEPT !.attached = a, !.disabled = disabled]
    BY <1>1 DEF Fields_date
  <2> HIDE DEF i, a, j
  <2>2. j \in Fields_date /\ j.attached = a
    BY <1>1, <2>1, FlagsAre
  <2> QED BY <2>0, <2>2 DEF a
<1>3. u = [picker EXCEPT !.of[f].disabled = disabled]
  BY <1>1 DEF WithField, Pickers
<1>4. t = [u EXCEPT !.focus = g] /\ UNCHANGED table
  BY <1>1, <1>3 DEF DisableField, Pickers
<1>5. g \in {picker.focus, NoField}
  OBVIOUS
<1> HIDE DEF j, g
<1>6. PickerCorrect(u) /\ u \in Pickers /\ SameRange(picker, u)
  BY <1>2, OfKeeps DEF PickerCorrect
<1>7. u.focus = picker.focus
  BY <1>1, <1>2, OfIs
<1> HIDE DEF u, t
<1>8. /\ t \in Pickers /\ t.of = u.of /\ t.cur = u.cur /\ t.last = u.last /\ t.drawn = u.drawn
      /\ t.showing = u.showing /\ t.meddled = u.meddled /\ t.focus \in {u.focus, NoField}
  BY <1>1, <1>4, <1>5, <1>6, <1>7 DEF Pickers
<1>9. PickerCorrect(t)
  BY <1>6, <1>8 DEF PickerCorrect, SharedBy
<1>10. SameRange(picker, t)
  BY <1>6, <1>8 DEF SameRange
<1> QED BY <1>4, <1>9, <1>10 DEF PickerKept, TableFollows, t

LEMMA BareIs ==
  ASSUME NEW i \in Fields_date, NEW j, j = Bare(i)
  PROVE  j \in Fields_date /\ j.narrow = FALSE
<1>1. Unread \in Int /\ NoDate \in Int
  BY DEF Unread, NoDate
<1>2. /\ j \in [attached : BOOLEAN, disabled : BOOLEAN, narrow : BOOLEAN,
                text : Days \cup {NoDate, Garbage}, lastVal : Int, selected : Int, current : Int]
      /\ j.narrow = FALSE /\ j.selected = NoDate
  BY <1>1 DEF Fields_date, Bare
<1> QED BY <1>2 DEF Fields_date

LEMMA DestroyFieldStep ==
  ASSUME PickerCorrect(picker), NEW f \in Fields, DestroyField(f)
  PROVE  PickerKept
<1> DEFINE i == picker.of[f]
           j == Bare(i)
           u == WithField(picker, f, j)
           g == IF picker.drawn = f THEN NoField ELSE picker.drawn
           c == IF picker.drawn = f THEN NoField ELSE picker.cur
           m == picker.meddled \/ picker.showing
           t == picker'
<1>1. i \in Fields_date /\ picker \in Pickers /\ picker.of \in [Fields -> Fields_date]
  BY DEF PickerCorrect, Pickers
<1>2. j \in Fields_date /\ j.narrow = FALSE
  BY <1>1, BareIs
<1>3. u = [picker EXCEPT !.of[f] = j]
  BY DEF WithField
<1>4. t = [u EXCEPT !.drawn = g, !.cur = c, !.meddled = m] /\ UNCHANGED table
  BY <1>1, <1>3 DEF DestroyField, Meddled, Pickers
<1>5. /\ g \in Fields \cup {NoField} /\ c \in Fields \cup {NoField} /\ m \in BOOLEAN
      /\ picker.showing => m
  BY <1>1 DEF Pickers
<1> HIDE DEF j, g, c, m
<1>6. /\ u \in Pickers /\ u.last = picker.last /\ u.showing = picker.showing
      /\ u.of[f] = j /\ \A h \in Fields \ {f} : u.of[h] = picker.of[h]
  BY <1>1, <1>2, OfIs
<1> HIDE DEF u, t
<1>7. /\ t \in Pickers /\ t.last = u.last /\ t.showing = u.showing /\ t.meddled = m
      /\ t.of = u.of /\ t.drawn = g
  BY <1>4, <1>5, <1>6 DEF Pickers
<1>8. PickerCorrect(t)
  BY <1>5, <1>6, <1>7 DEF PickerCorrect, SharedBy
<1>9. SameRange(picker, t)
  BY <1>2, <1>6, <1>7 DEF SameRange, g
<1> QED BY <1>4, <1>8, <1>9 DEF PickerKept, TableFollows, t

LEMMA AttachFieldStep ==
  ASSUME PickerCorrect(picker), NEW f \in Fields, AttachField(f)
  PROVE  PickerKept
<1> DEFINE i == picker.of[f]
           j == [i EXCEPT !.attached = TRUE]
           t == picker'
<1>1. i \in Fields_date /\ picker.of \in [Fields -> Fields_date] /\ picker \in Pickers
  BY DEF PickerCorrect, Pickers
<1>2. j \in Fields_date /\ j.attached = TRUE /\ j.narrow = i.narrow
  <2> DEFINE b == i.disabled
             a == TRUE
  <2>0. j.narrow = i.narrow
    BY <1>1 DEF Fields_date
  <2>1. a \in BOOLEAN /\ b \in BOOLEAN /\ j = [i EXCEPT !.attached = a, !.disabled = b]
    BY <1>1 DEF Fields_date
  <2> HIDE DEF i, a, b, j
  <2>2. j \in Fields_date /\ j.attached = a
    BY <1>1, <2>1, FlagsAre
  <2> QED BY <2>0, <2>2 DEF a
<1>3. t = WithField(picker, f, j) /\ UNCHANGED table
  BY <1>1 DEF AttachField, WithField, Pickers
<1> HIDE DEF j, t
<1>4. PickerCorrect(t) /\ SameRange(picker, t)
  BY <1>2, <1>3, OfKeeps
<1> QED BY <1>3, <1>4 DEF PickerKept, TableFollows, t

LEMMA DatepickerStepKeeps ==
  ASSUME PickerCorrect(picker), TableCorrect, DatepickerNext
  PROVE  PickerKept
<1>1. CASE PressElsewhere \/ CloseCalendar
  BY <1>1, PressElsewhereStep, CloseCalendarStep
<1>2. CASE \E d \in Days : ClickDay(d) \/ TurnMonth(MonthOf[d])
  BY <1>2, ClickDayStep, TurnMonthStep
<1>3. ASSUME NEW f \in Fields,
             \/ \E b \in BOOLEAN : \/ FocusField(f, b) \/ OpenByKey(f, b) \/ EnterDay(f, b)
                                   \/ SetRange(f, b) \/ DisableField(f, b)
             \/ \E step \in {-1, 1} : KeyDay(f, step)
             \/ \E text \in Days \cup {NoDate, Garbage} : TypeText(f, text)
             \/ \E d \in Days \cup {NoDate} : SetDate(f, d)
             \/ ClearByKey(f) \/ DestroyField(f) \/ AttachField(f)
      PROVE  PickerKept
  <2>1. ASSUME NEW b \in BOOLEAN, FocusField(f, b) \/ OpenByKey(f, b) \/ EnterDay(f, b)
                                  \/ SetRange(f, b) \/ DisableField(f, b)
        PROVE  PickerKept
    BY <2>1, FocusFieldStep, OpenByKeyStep, EnterDayStep, SetRangeStep, DisableFieldStep
  <2>2. CASE \E step \in {-1, 1} : KeyDay(f, step)
    BY <2>2, KeyDayStep
  <2>3. CASE \E text \in Days \cup {NoDate, Garbage} : TypeText(f, text)
    BY <2>3, TypeTextStep
  <2>4. CASE \E d \in Days \cup {NoDate} : SetDate(f, d)
    BY <2>4, SetDateStep
  <2>5. CASE ClearByKey(f) \/ DestroyField(f) \/ AttachField(f)
    BY <2>5, ClearByKeyStep, DestroyFieldStep, AttachFieldStep
  <2> QED BY <1>3, <2>1, <2>2, <2>3, <2>4, <2>5
<1> QED BY <1>1, <1>2, <1>3 DEF DatepickerNext

(* A table drawn anew holds allowed days, and one that stays keeps them.   *)
LEMMA TableKeeps ==
  ASSUME PickerCorrect(picker), TableCorrect, PickerKept
  PROVE  TableCorrect'
<1>1. ASSUME NEW f \in Fields, Redraw(f), picker'.drawn = f PROVE TableCorrect'
  <2>1. table'.of = f /\ table'.cells \subseteq Allowed(picker'.of[f])
    BY <1>1 DEF Redraw, cells
  <2> QED BY <1>1, <2>1 DEF TableCorrect
<1>2. ASSUME UNCHANGED table, SameRange(picker, picker') PROVE TableCorrect'
  <2>1. \A g \in Fields : Allowed(picker.of[g]) \subseteq Allowed(picker'.of[g])
    BY <1>2, DaysAre DEF SameRange, Allowed
  <2> QED BY <1>2, <2>1 DEF TableCorrect, SameRange
<1> QED BY <1>1, <1>2 DEF PickerKept, TableFollows

LEMMA DatepickerBegins ==
  ASSUME DatepickerInit
  PROVE  PickerCorrect(picker) /\ TableCorrect
<1> DEFINE i == [attached |-> TRUE, disabled |-> FALSE, narrow |-> FALSE,
                 text |-> NoDate, lastVal |-> Unread, selected |-> NoDate, current |-> NoDate]
<1>1. i \in Fields_date
  <2>1. Unread \in Int /\ NoDate \in Int
    BY DEF Unread, NoDate
  <2> QED BY <2>1 DEF Fields_date
<1>2. picker = [of |-> [f \in Fields |-> i], cur |-> NoField, last |-> NoField, drawn |-> NoField,
                showing |-> FALSE, focus |-> NoField, meddled |-> FALSE]
  BY DEF DatepickerInit
<1> HIDE DEF i
<1>3. [f \in Fields |-> i] \in [Fields -> Fields_date]
  BY <1>1
<1>4. picker \in Pickers
  BY <1>2, <1>3 DEF Pickers
<1>5. ~picker.showing /\ picker.last = NoField
  BY <1>2
<1>6. TableCorrect
  BY <1>2, DatepickerAssumption DEF TableCorrect, DatepickerInit
<1> QED BY <1>4, <1>5, <1>6 DEF PickerCorrect, SharedBy

LEMMA DatepickerHolds ==
  ASSUME PickerCorrect(picker), TableCorrect
  PROVE  DatepickerTypeOK /\ CalendarIsOfField
<1>1. ASSUME NEW f \in Fields
      PROVE  /\ picker.of[f].text \in Days \cup {NoDate, Garbage}
             /\ picker.of[f].selected \in Allowed(picker.of[f]) \cup {NoDate}
  BY OfPicker, FieldDateIs
<1>2. DatepickerTypeOK
  BY <1>1 DEF DatepickerTypeOK, PickerCorrect, Pickers
<1>3. CalendarIsOfField
  BY DatepickerAssumption DEF CalendarIsOfField, PickerCorrect, SharedBy, TableCorrect
<1> QED BY <1>2, <1>3

(* A click writes into the field the calendar was drawn for. *)
LEMMA ClickWrites ==
  ASSUME PickerCorrect(picker), TableCorrect, NEW d \in Days, ClickDay(d),
         NEW f \in Fields, picker'.of[f].text # picker.of[f].text
  PROVE  f = table.of /\ d \in Allowed(picker.of[f]) /\ ~picker.of[f].disabled
<1> DEFINE g == table.of
           u == [picker EXCEPT !.of[g].selected = d, !.of[g].current = d]
           v == [u EXCEPT !.of[g].text = d]
<1>1. picker \in Pickers /\ picker.of \in [Fields -> Fields_date] /\ g \in Fields
  BY DEF PickerCorrect, Pickers, ClickDay, TableCorrect
<1>2. picker' = selectDay(picker, g, d)
  BY DEF ClickDay
<1>3. ~picker.of[g].disabled /\ d \in Allowed(picker.of[g])
  <2>1. picker' # picker
    OBVIOUS
  <2>2. d \in Allowed(picker.of[g])
    BY <1>1 DEF ClickDay, TableCorrect
  <2> QED BY <1>2, <2>1, <2>2 DEF selectDay
<1>4. picker' = [hideDatepicker(v) EXCEPT !.last = NoField]
  BY <1>2, <1>3 DEF selectDay, selectDate
<1>6. \A h \in Fields \ {g} : v.of[h] = picker.of[h]
  BY <1>1 DEF Pickers
<1>7. hideDatepicker(v).of = v.of
  BY <1>1 DEF hideDatepicker, Pickers
<1>8. picker'.of = v.of
  BY <1>1, <1>4, <1>7 DEF hideDatepicker, Pickers
<1> QED BY <1>3, <1>6, <1>8

-------------------------------------------------------------------------------
(* Lists of numbers in order.                                              *)

(* The elements of a set of numbers, listed by rank. *)
LEMMA RankedIs ==
  ASSUME NEW S, S \subseteq Int, IsFiniteSet(S), NEW l,
         l = [i \in 1..Cardinality(S) |-> CHOOSE e \in S : Cardinality({d \in S : d < e}) = i - 1]
  PROVE  l \in Seq(S) /\ Len(l) = Cardinality(S) /\ Cardinality(S) \in Nat /\ Range(l) = S
<1>12. l = [i \in DOMAIN l |-> l[i]]
  <2> DEFINE at(i) == CHOOSE e \in S : Cardinality({d \in S : d < e}) = i - 1
             places == 1..Cardinality(S)
  <2>1. l = [i \in places |-> at(i)]
    OBVIOUS
  <2> HIDE DEF at, places
  <2> QED BY <2>1
<1> DEFINE n == Cardinality(S)
           below(e) == {d \in S : d < e}
           rank == [e \in S |-> Cardinality(below(e)) + 1]
<1>1. n \in Nat
  BY FS_CardinalityType
<1>2. ASSUME NEW e \in S
      PROVE  IsFiniteSet(below(e)) /\ Cardinality(below(e)) \in 0..(n - 1)
  <2>1. IsFiniteSet(S \ {e}) /\ Cardinality(S \ {e}) = n - 1
    BY FS_RemoveElement
  <2>2. below(e) \in SUBSET (S \ {e})
    OBVIOUS
  <2>3. IsFiniteSet(below(e)) /\ Cardinality(below(e)) <= n - 1
    BY <2>1, <2>2, FS_Subset
  <2>4. Cardinality(below(e)) \in Nat
    BY <2>3, FS_CardinalityType
  <2> HIDE DEF below, n
  <2> QED BY <1>1, <2>3, <2>4
<1>3. rank \in [S -> 1..n]
  <2> HIDE DEF below, n
  <2> QED BY <1>1, <1>2
<1>4. ASSUME NEW x \in S, NEW y \in S, x < y
      PROVE  rank[x] # rank[y]
  <2>0. x \in Int /\ y \in Int /\ \A d \in S : d \in Int
    OBVIOUS
  <2>1. below(x) \in SUBSET below(y) /\ x \in below(y) /\ x \notin below(x)
    <3>1. \A d \in S : d < x => d < y
      BY <1>4, <2>0
    <3>2. ~(x < x)
      BY <2>0
    <3> QED BY <1>4, <3>1, <3>2
  <2>2. Cardinality(below(y)) # Cardinality(below(x))
    BY <1>2, <2>1, FS_Subset
  <2>3. Cardinality(below(x)) \in Int /\ Cardinality(below(y)) \in Int
    <3> HIDE DEF below
    <3> QED BY <1>1, <1>2
  <2> HIDE DEF below
  <2> QED BY <2>2, <2>3
<1>5. IsInjective(rank)
  <2> SUFFICES ASSUME NEW x \in S, NEW y \in S, rank[x] = rank[y] PROVE x = y
    BY <1>3 DEF IsInjective
  <2>1. x \in Int /\ y \in Int
    OBVIOUS
  <2>2. ~(x < y) /\ ~(y < x)
    BY <1>4
  <2> QED BY <2>1, <2>2
<1>6. \A i \in 1..n : \E e \in S : rank[e] = i
  <2>1. rank \in Injection(S, 1..n)
    BY <1>3, <1>5 DEF Injection
  <2>2. IsFiniteSet(1..n) /\ Cardinality(1..n) = n
    <3> HIDE DEF n
    <3> QED BY <1>1, FS_Interval
  <2>3. rank \in Surjection(S, 1..n)
    BY <2>1, <2>2, FS_Injection
  <2> QED BY <2>3 DEF Surjection
<1>7. \A i \in 1..n : l[i] \in S /\ rank[l[i]] = i
  <2> SUFFICES ASSUME NEW i \in 1..n PROVE l[i] \in S /\ rank[l[i]] = i
    OBVIOUS
  <2>1. PICK e \in S : rank[e] = i
    BY <1>6
  <2>2. Cardinality(below(e)) = i - 1
    <3>1. Cardinality(below(e)) \in Int /\ i \in Int /\ Cardinality(below(e)) + 1 = i
      <4> HIDE DEF below, n
      <4> QED BY <1>1, <1>2, <2>1
    <3> QED BY <3>1
  <2>3. l[i] \in S /\ Cardinality(below(l[i])) = i - 1
    BY <2>2
  <2> HIDE DEF below
  <2> QED BY <2>3
<1>8. DOMAIN l = 1..n
  OBVIOUS
<1> HIDE DEF n, below, rank
<1>9. l \in Seq(S)
  <2>1. l = [i \in 1..n |-> l[i]]
    BY <1>8, <1>12
  <2>2. l \in [1..n -> S]
    BY <1>7, <2>1
  <2> QED BY <1>1, <2>2, SeqDef
<1>10. Len(l) = n
  <2>1. Len(l) \in Nat /\ DOMAIN l = 1..Len(l)
    BY <1>9, LenProperties
  <2>2. 1..Len(l) = 1..n
    BY <1>8, <2>1
  <2>3. ASSUME NEW a \in Nat, NEW b \in Nat, 1..a = 1..b PROVE a <= b
    <3>1. a = 0 \/ a \in 1..b
      BY <2>3
    <3> QED BY <3>1
  <2>4. Len(l) <= n /\ n <= Len(l)
    BY <1>1, <2>1, <2>2, <2>3
  <2>5. \A a \in Nat, b \in Nat : a <= b /\ b <= a => a = b
    OBVIOUS
  <2> QED BY ONLY <1>1, <2>1, <2>4, <2>5
<1>11. Range(l) = S
  <2>1. Range(l) \subseteq S
    BY <1>7, <1>8 DEF Range
  <2>2. ASSUME NEW e \in S PROVE e \in Range(l)
    <3>1. rank[e] \in 1..n
      BY <1>3
    <3>2. l[rank[e]] \in S /\ rank[l[rank[e]]] = rank[e]
      BY <1>7, <3>1
    <3>3. DOMAIN rank = S
      BY <1>3
    <3>4. l[rank[e]] = e
      BY <1>5, <3>2, <3>3 DEF IsInjective
    <3> QED BY <1>8, <3>1, <3>4 DEF Range
  <2> QED BY <2>1, <2>2
<1> QED BY <1>1, <1>9, <1>10, <1>11 DEF n

(* The numbers up to n, listed by rank. *)
LEMMA RankedInterval ==
  ASSUME NEW n \in Nat, NEW l,
         l = [i \in 1..Cardinality(1..n) |-> CHOOSE e \in 1..n : Cardinality({d \in 1..n : d < e}) = i - 1]
  PROVE  \A i \in DOMAIN l : l[i] = i
<1>1. Cardinality(1..n) = n
  BY FS_Interval
<1>2. ASSUME NEW e \in 1..n PROVE Cardinality({d \in 1..n : d < e}) = e - 1
  <2>1. {d \in 1..n : d < e} = 1..(e - 1)
    OBVIOUS
  <2>2. Cardinality(1..(e - 1)) = e - 1
    <3>1. e - 1 \in Int /\ 1 \in Int /\ ~(1 > e - 1) => (e - 1) - 1 + 1 = e - 1
      OBVIOUS
    <3>2. Cardinality(1..(e - 1)) = IF 1 > e - 1 THEN 0 ELSE (e - 1) - 1 + 1
      BY FS_Interval
    <3> QED BY <3>1, <3>2
  <2> QED BY <2>1, <2>2
<1>3. ASSUME NEW i \in 1..n PROVE l[i] = i
  <2>1. l[i] = CHOOSE e \in 1..n : Cardinality({d \in 1..n : d < e}) = i - 1
    BY <1>1
  <2>2. \E e \in 1..n : Cardinality({d \in 1..n : d < e}) = i - 1
    BY <1>2
  <2>3. l[i] \in 1..n /\ Cardinality({d \in 1..n : d < l[i]}) = i - 1
    BY <2>1, <2>2
  <2>4. l[i] - 1 = i - 1
    BY <1>2, <2>3
  <2>5. \A a \in 1..n : a - 1 = i - 1 => a = i
    OBVIOUS
  <2> QED BY ONLY <2>3, <2>4, <2>5
<1> QED BY <1>1, <1>3

-------------------------------------------------------------------------------
(* Tabs.                                                                   *)

TabsRecords(timer) ==
  [there : SUBSET AllTabs, tabs : Seq(AllTabs), active : 0..TabCount, index : 0..TabCount,
   disabled : SUBSET (0..TabCount), off : SUBSET AllTabs, running : {"no", "hide", "show"},
   old : 0..TabCount, new : 0..TabCount, shown : SUBSET AllTabs, loading : [AllTabs -> {"no", "sent", "done"}],
   xhr : {NoTab} \cup Remote, activating : {timer}, collapsible : BOOLEAN, animated : BOOLEAN, missed : BOOLEAN]

TabsTyped(s) ==
  /\ s \in TabsRecords(s.activating)
  /\ Len(s.tabs) <= TabCount
  /\ s.shown \subseteq s.there

(* The option has an index of the active tab.                              *)
IndexFollows(s) ==
  /\ s.index = NoTab => s.active = NoTab
  /\ s.missed \/ s.index = Position(s, s.active)

IndexIs(s) ==
  /\ s.index = NoTab => s.active = NoTab
  /\ s.index = Position(s, s.active)

LeavesOneOut(s) == s.disabled # All => DOMAIN s.tabs = {} \/ DOMAIN s.tabs \ s.disabled # {}

(* What an animation brings in is the active panel, or it is gone.         *)
NewFollows(s) == s.running # "no" => s.active = s.new \/ (s.active = NoTab /\ s.new \notin s.there)

PanelFollows(s) ==
  ~s.missed =>
    /\ s.running = "no" => s.shown \cap Range(s.tabs) = {s.active} \cap s.there
    /\ s.running = "hide" => s.shown \cap Range(s.tabs) \subseteq {s.old, s.new}
    /\ s.running = "show" => s.shown \cap Range(s.tabs) = {s.new} \cap s.there

TabsOK(s) == TabsTyped(s) /\ IndexFollows(s) /\ LeavesOneOut(s) /\ NewFollows(s) /\ PanelFollows(s)

SameTabs(s, u) ==
  /\ u.there = s.there /\ u.tabs = s.tabs /\ u.disabled = s.disabled /\ u.off = s.off
  /\ u.activating = s.activating /\ u.collapsible = s.collapsible /\ u.animated = s.animated /\ u.missed = s.missed

LEMMA TabsAre ==
  ASSUME NEW s, TabsTyped(s)
  PROVE  /\ Range(s.tabs) \subseteq AllTabs /\ NoTab \notin Range(s.tabs)
         /\ NoTab \notin s.there /\ NoTab \notin AllTabs
         /\ DOMAIN s.tabs = 1..Len(s.tabs) /\ Len(s.tabs) \in Nat /\ Len(s.tabs) <= TabCount
         /\ s.tabs = <<>> <=> Len(s.tabs) = 0
<1>1. s.tabs \in Seq(AllTabs) /\ Len(s.tabs) <= TabCount /\ s.there \subseteq AllTabs
  BY DEF TabsTyped, TabsRecords
<1>2. DOMAIN s.tabs = 1..Len(s.tabs) /\ Len(s.tabs) \in Nat
  BY <1>1, LenProperties
<1>3. \A i \in 1..Len(s.tabs) : s.tabs[i] \in AllTabs
  BY <1>1, ElementOfSeq
<1>4. Range(s.tabs) \subseteq AllTabs
  BY <1>2, <1>3 DEF Range
<1>5. NoTab \notin AllTabs
  BY TabsAssumption DEF NoTab, AllTabs
<1>6. s.tabs = <<>> <=> Len(s.tabs) = 0
  BY <1>1, EmptySeq
<1> QED BY <1>1, <1>2, <1>4, <1>5, <1>6

LEMMA TabAtIs ==
  ASSUME NEW s, TabsTyped(s), NEW i
  PROVE  /\ TabAt(s, i) \in Range(s.tabs) \cup {NoTab}
         /\ TabAt(s, i) = NoTab <=> i \notin DOMAIN s.tabs
<1>1. NoTab \notin Range(s.tabs)
  BY TabsAre
<1>2. i \in DOMAIN s.tabs => TabAt(s, i) \in Range(s.tabs)
  BY DEF TabAt, Range
<1>3. i \notin DOMAIN s.tabs => TabAt(s, i) = NoTab
  BY DEF TabAt
<1> QED BY <1>1, <1>2, <1>3

LEMMA PositionIs ==
  ASSUME NEW s, TabsTyped(s), NEW t
  PROVE  /\ Position(s, t) \in 0..TabCount
         /\ Position(s, t) = NoTab <=> t \notin Range(s.tabs)
<1>1. DOMAIN s.tabs = 1..Len(s.tabs) /\ Len(s.tabs) \in Nat /\ Len(s.tabs) <= TabCount
  BY TabsAre
<1>2. ASSUME t \in Range(s.tabs) PROVE Position(s, t) \in DOMAIN s.tabs
  <2>1. \E i \in DOMAIN s.tabs : s.tabs[i] = t
    BY <1>2 DEF Range
  <2> QED BY <1>2, <2>1 DEF Position
<1>3. t \notin Range(s.tabs) => Position(s, t) = NoTab
  BY DEF Position
<1>4. \A i \in 1..Len(s.tabs) : i \in 0..TabCount /\ i # NoTab
  BY <1>1, TabsAssumption DEF NoTab
<1>5. NoTab \in 0..TabCount
  BY TabsAssumption DEF NoTab
<1> QED BY <1>1, <1>2, <1>3, <1>4, <1>5

LEMMA ListedIs ==
  ASSUME NEW there \in SUBSET AllTabs
  PROVE  /\ Listed(there) \in Seq(AllTabs) /\ Len(Listed(there)) = Cardinality(there)
         /\ Cardinality(there) \in Nat /\ Cardinality(there) <= TabCount
         /\ Range(Listed(there)) = there
<1>1. IsFiniteSet(AllTabs) /\ Cardinality(AllTabs) = TabCount
  BY TabsAssumption, FS_Interval DEF AllTabs
<1>2. IsFiniteSet(there) /\ Cardinality(there) <= TabCount
  BY <1>1, FS_Subset
<1>3. there \subseteq Int
  BY TabsAssumption DEF AllTabs
<1> DEFINE l == Listed(there)
<1>4. l = [i \in 1..Cardinality(there) |-> CHOOSE e \in there : Cardinality({d \in there : d < e}) = i - 1]
  BY DEF Listed
<1>5. l \in Seq(there) /\ Len(l) = Cardinality(there) /\ Cardinality(there) \in Nat /\ Range(l) = there
  <2> HIDE DEF l
  <2> QED BY <1>2, <1>3, <1>4, RankedIs
<1>6. l \in Seq(AllTabs)
  BY <1>5
<1> QED BY <1>2, <1>5, <1>6

-------------------------------------------------------------------------------

brings(s) == s.new # NoTab /\ s.animated

BeginShowFacts(s, u) ==
  /\ u \in TabsRecords(s.activating)
  /\ SameTabs(s, u)
  /\ u.active = s.active /\ u.index = s.index
  /\ u.running = (IF brings(s) THEN "show" ELSE "no")
  /\ u.old = (IF brings(s) THEN s.old ELSE NoTab) /\ u.new = (IF brings(s) THEN s.new ELSE NoTab)
  /\ u.shown = s.shown \cup ({s.new} \cap s.there)

LEMMA BeginShowIs ==
  ASSUME NEW s, s \in TabsRecords(s.activating)
  PROVE  BeginShowFacts(s, beginShow(s))
<1> DEFINE page == {s.new} \cap s.there
           w == [s EXCEPT !.shown = @ \cup page]
           u == beginShow(s)
<1>1. u = IF brings(s) THEN [w EXCEPT !.running = "show"]
          ELSE [w EXCEPT !.running = "no", !.old = NoTab, !.new = NoTab]
  BY DEF beginShow, brings
<1>2. page \subseteq AllTabs
  BY DEF TabsRecords
<1> HIDE DEF page
<1>3. w \in TabsRecords(s.activating) /\ w.shown = s.shown \cup page
  BY <1>2 DEF TabsRecords
<1>4. SameTabs(s, w) /\ w.active = s.active /\ w.index = s.index /\ w.old = s.old /\ w.new = s.new
  BY DEF TabsRecords, SameTabs
<1>5. NoTab \in 0..TabCount
  BY TabsAssumption DEF NoTab
<1> HIDE DEF w, u
<1>6. CASE brings(s)
  <2>1. u = [w EXCEPT !.running = "show"]
    BY <1>1, <1>6
  <2>2. u \in TabsRecords(s.activating)
    BY <1>3, <2>1 DEF TabsRecords
  <2>3. u.running = "show" /\ u.old = w.old /\ u.new = w.new /\ u.shown = w.shown
        /\ u.active = w.active /\ u.index = w.index /\ SameTabs(w, u)
    BY <1>3, <2>1 DEF TabsRecords, SameTabs
  <2>4. SameTabs(s, u)
    BY <1>4, <2>3 DEF SameTabs
  <2>5. BeginShowFacts(s, u)
    BY <1>3, <1>4, <1>6, <2>2, <2>3, <2>4 DEF BeginShowFacts, page
  <2> QED BY <2>5 DEF u
<1>7. CASE ~brings(s)
  <2>1. u = [w EXCEPT !.running = "no", !.old = NoTab, !.new = NoTab]
    BY <1>1, <1>7
  <2>2. u \in TabsRecords(s.activating)
    BY <1>3, <1>5, <2>1 DEF TabsRecords
  <2>3. u.running = "no" /\ u.old = NoTab /\ u.new = NoTab /\ u.shown = w.shown
        /\ u.active = w.active /\ u.index = w.index
    BY <1>3, <2>1 DEF TabsRecords
  <2>6. SameTabs(w, u)
    BY <1>3, <2>1 DEF TabsRecords, SameTabs
  <2>4. SameTabs(s, u)
    BY <1>4, <2>6 DEF SameTabs
  <2>5. BeginShowFacts(s, u)
    BY <1>3, <1>4, <1>7, <2>2, <2>3, <2>4 DEF BeginShowFacts, page
  <2> QED BY <2>5 DEF u
<1> QED BY <1>6, <1>7

(* Without an animation to hide the old panel the new one is shown at once. *)
ToggleTabFacts(s, old, new, u) ==
  /\ u \in TabsRecords(s.activating)
  /\ SameTabs(s, u)
  /\ u.active = s.active /\ u.index = s.index
  /\ \/ u.running = "hide" /\ u.old = old /\ u.new = new /\ u.shown = s.shown
     \/ /\ u.shown = (s.shown \ {old}) \cup ({new} \cap s.there)
        /\ (u.running = "show" /\ u.new = new) \/ u.running = "no"

LEMMA ToggleTabIs ==
  ASSUME NEW s, s \in TabsRecords(s.activating), NEW old \in 0..TabCount, NEW new \in 0..TabCount
  PROVE  ToggleTabFacts(s, old, new, toggle(s, old, new))
<1> DEFINE begun == [s EXCEPT !.old = old, !.new = new]
           emptied == [begun EXCEPT !.shown = @ \ {old}]
           u == toggle(s, old, new)
<1>1. u = IF old \in s.there /\ s.animated THEN [begun EXCEPT !.running = "hide"] ELSE beginShow(emptied)
  BY DEF toggle
<1>2. begun \in TabsRecords(s.activating) /\ begun.old = old /\ begun.new = new
  BY DEF TabsRecords
<1>3. SameTabs(s, begun) /\ begun.active = s.active /\ begun.index = s.index /\ begun.shown = s.shown
  BY DEF TabsRecords, SameTabs
<1> HIDE DEF begun, u
<1>4. ASSUME u = [begun EXCEPT !.running = "hide"] PROVE ToggleTabFacts(s, old, new, u)
  <2>1. u \in TabsRecords(s.activating)
    BY <1>2, <1>4 DEF TabsRecords
  <2>2. u.running = "hide" /\ u.old = old /\ u.new = new /\ u.shown = s.shown /\ u.active = s.active /\ u.index = s.index
    BY <1>2, <1>3, <1>4 DEF TabsRecords
  <2>3. SameTabs(begun, u)
    BY <1>2, <1>4 DEF TabsRecords, SameTabs
  <2>4. SameTabs(s, u)
    BY <1>3, <2>3 DEF SameTabs
  <2> QED BY <2>1, <2>2, <2>4 DEF ToggleTabFacts
<1>5. ASSUME u = beginShow(emptied) PROVE ToggleTabFacts(s, old, new, u)
  <2>1. emptied \in TabsRecords(s.activating) /\ emptied.shown = s.shown \ {old}
    BY <1>2, <1>3 DEF TabsRecords
  <2>2. SameTabs(begun, emptied) /\ emptied.active = begun.active /\ emptied.index = begun.index
        /\ emptied.old = begun.old /\ emptied.new = begun.new
    BY <1>2 DEF TabsRecords, SameTabs
  <2> HIDE DEF emptied
  <2>3. SameTabs(s, emptied) /\ emptied.activating = s.activating
    BY <1>3, <2>2 DEF SameTabs
  <2>4. BeginShowFacts(emptied, u)
    BY <1>5, <2>1, <2>3, BeginShowIs
  <2>5. SameTabs(s, u)
    BY <2>3, <2>4 DEF SameTabs, BeginShowFacts
  <2>6. emptied.there = s.there
    BY <2>3 DEF SameTabs
  <2>7. u.shown = (s.shown \ {old}) \cup ({new} \cap s.there)
    BY <1>2, <2>1, <2>2, <2>4, <2>6 DEF BeginShowFacts
  <2>8. (u.running = "show" /\ u.new = new) \/ u.running = "no"
    BY <1>2, <2>2, <2>4 DEF BeginShowFacts
  <2> QED BY <1>3, <2>2, <2>3, <2>4, <2>5, <2>7, <2>8 DEF ToggleTabFacts, BeginShowFacts
<1>6. ToggleTabFacts(s, old, new, u)
  BY <1>1, <1>4, <1>5
<1> QED BY <1>6 DEF u

(* The requests of panels are another matter than what is shown.           *)
SameButRequests(s, u) ==
  /\ u \in TabsRecords(s.activating) /\ SameTabs(s, u)
  /\ u.active = s.active /\ u.index = s.index /\ u.running = s.running /\ u.old = s.old /\ u.new = s.new
  /\ u.shown = s.shown

LEMMA RequestsAside ==
  ASSUME NEW s, s \in TabsRecords(s.activating)
  PROVE  /\ SameButRequests(s, abort(s))
         /\ \A t \in AllTabs : SameButRequests(s, load(s, t))
<1>0. SameButRequests(s, s)
  BY DEF SameButRequests, SameTabs
<1>1. ASSUME NEW loading \in [AllTabs -> {"no", "sent", "done"}], NEW xhr \in {NoTab} \cup Remote,
             NEW u, u = [s EXCEPT !.xhr = xhr, !.loading = loading] \/ u = [s EXCEPT !.loading = loading]
      PROVE  SameButRequests(s, u)
  <2>1. u \in TabsRecords(s.activating)
    BY <1>1 DEF TabsRecords
  <2>2. SameTabs(s, u)
    BY <1>1 DEF TabsRecords, SameTabs
  <2>3. /\ u.active = s.active /\ u.index = s.index /\ u.running = s.running /\ u.old = s.old /\ u.new = s.new
        /\ u.shown = s.shown
    BY <1>1 DEF TabsRecords
  <2> QED BY <2>1, <2>2, <2>3 DEF SameButRequests
<1>2. \A t \in AllTabs, status \in {"sent", "done"} :
        [s.loading EXCEPT ![t] = status] \in [AllTabs -> {"no", "sent", "done"}]
  BY DEF TabsRecords
<1>3. SameButRequests(s, abort(s))
  <2>1. CASE s.xhr # NoTab /\ s.loading[s.xhr] = "sent"
    <3> DEFINE loading == [s.loading EXCEPT ![s.xhr] = "done"]
    <3>1. s.xhr \in AllTabs
      BY <2>1, TabsAssumption DEF TabsRecords, AllTabs
    <3>2. abort(s) = [s EXCEPT !.loading = loading]
      BY <2>1 DEF abort
    <3>3. loading \in [AllTabs -> {"no", "sent", "done"}]
      BY <1>2, <3>1
    <3> HIDE DEF loading
    <3> QED BY <1>1, <3>2, <3>3
  <2>2. CASE ~(s.xhr # NoTab /\ s.loading[s.xhr] = "sent")
    BY <1>0, <2>2 DEF abort
  <2> QED BY <2>1, <2>2
<1>4. ASSUME NEW t \in AllTabs PROVE SameButRequests(s, load(s, t))
  <2>1. CASE t \in Remote
    <3> DEFINE loading == [s.loading EXCEPT ![t] = "sent"]
    <3>1. load(s, t) = [s EXCEPT !.xhr = t, !.loading = loading]
      BY <2>1 DEF load
    <3>2. loading \in [AllTabs -> {"no", "sent", "done"}]
      BY <1>2
    <3> HIDE DEF loading
    <3> QED BY <1>1, <2>1, <3>1, <3>2
  <2>2. CASE t \notin Remote
    BY <1>0, <2>2 DEF load
  <2> QED BY <2>1, <2>2
<1> QED BY <1>3, <1>4

tabAfter(s, t) == IF t = s.active THEN NoTab ELSE t
EventTabFacts(s, t, u) ==
  /\ u \in TabsRecords(s.activating)
  /\ SameTabs(s, u)
  /\ u.index = (IF t = s.active THEN NoTab ELSE Position(s, t)) /\ u.active = tabAfter(s, t)
  /\ \/ u.running = "hide" /\ u.old = s.active /\ u.new = tabAfter(s, t) /\ u.shown = s.shown
     \/ /\ u.shown = (s.shown \ {s.active}) \cup ({tabAfter(s, t)} \cap s.there)
        /\ (u.running = "show" /\ u.new = tabAfter(s, t)) \/ u.running = "no"

LEMMA EventTabIs ==
  ASSUME NEW s, TabsTyped(s), NEW t \in AllTabs, ~refused(s, t)
  PROVE  EventTabFacts(s, t, eventHandler(s, t, TRUE))
<1> DEFINE n == tabAfter(s, t)
           i == IF t = s.active THEN NoTab ELSE Position(s, t)
           a == [s EXCEPT !.index = i, !.active = n]
           b == abort(a)
           c == IF t = s.active THEN b ELSE load(b, t)
           u == eventHandler(s, t, TRUE)
<1>1. u = toggle(c, s.active, n)
  BY DEF eventHandler, tabAfter
<1>2. s \in TabsRecords(s.activating) /\ s.active \in 0..TabCount
  BY DEF TabsTyped, TabsRecords
<1>3. NoTab \in 0..TabCount /\ t \in 0..TabCount
  BY TabsAssumption DEF NoTab, AllTabs
<1>4. n \in 0..TabCount /\ i \in 0..TabCount
  BY <1>3, PositionIs DEF tabAfter
<1> HIDE DEF n, i, u
<1>5. a \in TabsRecords(s.activating) /\ a.index = i /\ a.active = n
  BY <1>2, <1>4 DEF TabsRecords
<1>6. SameTabs(s, a) /\ a.running = s.running /\ a.old = s.old /\ a.new = s.new /\ a.shown = s.shown
  BY <1>2 DEF TabsRecords, SameTabs
<1> HIDE DEF a
<1>7. a.activating = s.activating
  BY <1>6 DEF SameTabs
<1>8. SameButRequests(a, b)
  BY <1>5, <1>7, RequestsAside
<1> HIDE DEF b
<1>9. b \in TabsRecords(b.activating) /\ SameButRequests(b, b)
  BY <1>8 DEF SameButRequests, SameTabs
<1>10. SameButRequests(b, c)
  BY <1>9, RequestsAside
<1> HIDE DEF c
<1>11. c \in TabsRecords(c.activating) /\ c.activating = s.activating /\ SameTabs(s, c)
       /\ c.active = n /\ c.index = i /\ c.shown = s.shown
  BY <1>5, <1>6, <1>8, <1>10 DEF SameButRequests, SameTabs
<1>12. ToggleTabFacts(c, s.active, n, u)
  BY <1>1, <1>2, <1>4, <1>11, ToggleTabIs
<1>13. SameTabs(s, u) /\ c.there = s.there
  BY <1>11, <1>12 DEF ToggleTabFacts, SameTabs
<1>14. EventTabFacts(s, t, u)
  BY <1>11, <1>12, <1>13 DEF ToggleTabFacts, EventTabFacts, n, i
<1> QED BY <1>14 DEF u

(* A click that is not refused. *)
LEMMA EventTabFollows ==
  ASSUME NEW s, TabsTyped(s), NEW t \in Range(s.tabs) \cup {s.active}, t # NoTab, ~refused(s, t)
  PROVE  /\ TabsTyped(eventHandler(s, t, TRUE)) /\ SameTabs(s, eventHandler(s, t, TRUE))
         /\ IndexIs(eventHandler(s, t, TRUE)) /\ NewFollows(eventHandler(s, t, TRUE))
         /\ PanelFollows(s) => PanelFollows(eventHandler(s, t, TRUE))
<1> DEFINE u == eventHandler(s, t, TRUE)
           n == tabAfter(s, t)
           i == IF t = s.active THEN NoTab ELSE Position(s, t)
<1>1. t \in AllTabs
  <2>1. s.active \in 0..TabCount
    BY DEF TabsTyped, TabsRecords
  <2>2. \A a \in 0..TabCount : a # NoTab => a \in AllTabs
    BY TabsAssumption DEF NoTab, AllTabs
  <2> QED BY <2>1, <2>2, TabsAre
<1>2. EventTabFacts(s, t, u)
  BY <1>1, EventTabIs
<1>3. /\ u \in TabsRecords(s.activating) /\ u.activating = s.activating
      /\ u.there = s.there /\ u.tabs = s.tabs /\ u.missed = s.missed
      /\ u.index = i /\ u.active = n
  BY <1>2 DEF EventTabFacts, SameTabs
<1>4. \/ u.running = "hide" /\ u.old = s.active /\ u.new = n /\ u.shown = s.shown
      \/ /\ u.shown = (s.shown \ {s.active}) \cup ({n} \cap s.there)
         /\ (u.running = "show" /\ u.new = n) \/ u.running = "no"
  BY <1>2 DEF EventTabFacts
<1>5. n = NoTab <=> i = NoTab
  <2>1. t # s.active => t \in Range(s.tabs)
    OBVIOUS
  <2> QED BY <2>1, PositionIs DEF tabAfter
<1>6. Position(u, n) = i
  <2>1. Position(u, n) = Position(s, n)
    <3> HIDE DEF u, n, i
    <3> QED BY <1>3 DEF Position
  <2>2. Position(s, NoTab) = NoTab
    BY TabsAre DEF Position
  <2> QED BY <2>1, <2>2 DEF tabAfter
<1>7. s.running = "no"
  BY DEF refused
<1>8. SameTabs(s, u)
  BY <1>2 DEF EventTabFacts
<1> HIDE DEF u, n, i
<1>9. TabsTyped(u)
  <2>1. s.shown \subseteq s.there /\ Len(s.tabs) <= TabCount
    BY DEF TabsTyped
  <2> QED BY <1>3, <1>4, <2>1 DEF TabsTyped
<1>10. IndexIs(u)
  BY <1>3, <1>5, <1>6 DEF IndexIs
<1>11. NewFollows(u)
  BY <1>3, <1>4 DEF NewFollows
<1>12. ASSUME PanelFollows(s) PROVE PanelFollows(u)
  <2>1. ~s.missed => s.shown \cap Range(s.tabs) \subseteq {s.active}
    BY <1>7, <1>12 DEF PanelFollows
  <2>2. {n} \cap s.there \subseteq Range(s.tabs)
    BY TabsAre DEF n, tabAfter
  <2> QED BY <1>3, <1>4, <2>1, <2>2 DEF PanelFollows
<1> QED BY <1>8, <1>9, <1>10, <1>11, <1>12 DEF u

LEMMA ActivateTabFollows ==
  ASSUME NEW s, TabsTyped(s), NEW i, NEW allow \in BOOLEAN
  PROVE  /\ TabsTyped(activate(s, i, allow)) /\ SameTabs(s, activate(s, i, allow))
         /\ \/ activate(s, i, allow) = s
            \/ /\ IndexIs(activate(s, i, allow)) /\ NewFollows(activate(s, i, allow))
               /\ PanelFollows(s) => PanelFollows(activate(s, i, allow))
<1> DEFINE t == TabAt(s, i)
           k == IF t = NoTab THEN s.active ELSE t
<1>1. t \in Range(s.tabs) \cup {NoTab}
  BY TabAtIs
<1>2. activate(s, i, allow) = IF t = s.active THEN s ELSE eventHandler(s, k, allow)
  BY DEF activate
<1>3. SameTabs(s, s)
  BY DEF SameTabs
<1>4. CASE t = s.active
  BY <1>2, <1>3, <1>4
<1>5. CASE t # s.active /\ (refused(s, k) \/ ~allow)
  <2>1. eventHandler(s, k, allow) = s
    BY <1>5 DEF eventHandler
  <2> QED BY <1>2, <1>3, <1>5, <2>1
<1>6. CASE t # s.active /\ ~refused(s, k) /\ allow
  <2>1. k \in Range(s.tabs) \cup {s.active} /\ k # NoTab
    BY <1>1, <1>6
  <2>2. activate(s, i, allow) = eventHandler(s, k, TRUE)
    BY <1>2, <1>6
  <2> HIDE DEF k
  <2>3. /\ TabsTyped(eventHandler(s, k, TRUE)) /\ SameTabs(s, eventHandler(s, k, TRUE))
        /\ IndexIs(eventHandler(s, k, TRUE)) /\ NewFollows(eventHandler(s, k, TRUE))
        /\ PanelFollows(s) => PanelFollows(eventHandler(s, k, TRUE))
    BY <1>6, <2>1, EventTabFollows
  <2> QED BY <2>2, <2>3
<1> QED BY <1>4, <1>5, <1>6

LEMMA EventKept ==
  ASSUME NEW s, TabsOK(s), NEW t \in Range(s.tabs), NEW allow \in BOOLEAN
  PROVE  TabsOK(eventHandler(s, t, allow))
<1>1. CASE refused(s, t) \/ ~allow
  BY <1>1 DEF eventHandler
<1>2. CASE ~refused(s, t) /\ allow
  <2>1. TabsTyped(s) /\ PanelFollows(s) /\ LeavesOneOut(s) /\ t # NoTab
    BY TabsAre DEF TabsOK
  <2> DEFINE u == eventHandler(s, t, TRUE)
  <2>4. eventHandler(s, t, allow) = u
    BY <1>2
  <2>2. TabsTyped(u) /\ SameTabs(s, u) /\ IndexFollows(u) /\ NewFollows(u) /\ PanelFollows(u)
    BY <1>2, <2>1, EventTabFollows DEF IndexIs, IndexFollows
  <2> HIDE DEF u
  <2>3. LeavesOneOut(u)
    BY <2>1, <2>2 DEF LeavesOneOut, SameTabs
  <2>5. TabsOK(u)
    BY <2>2, <2>3 DEF TabsOK
  <2> QED BY <2>4, <2>5
<1> QED BY <1>1, <1>2

LEMMA ActivateTabKept ==
  ASSUME NEW s, TabsOK(s), NEW i, NEW allow \in BOOLEAN
  PROVE  TabsOK(activate(s, i, allow))
<1> DEFINE u == activate(s, i, allow)
<1>1. TabsTyped(s) /\ PanelFollows(s) /\ LeavesOneOut(s)
  BY DEF TabsOK
<1>2. TabsTyped(u) /\ SameTabs(s, u) /\ (u = s \/ (IndexFollows(u) /\ NewFollows(u) /\ PanelFollows(u)))
  BY <1>1, ActivateTabFollows DEF IndexIs, IndexFollows
<1> HIDE DEF u
<1>3. LeavesOneOut(u)
  BY <1>1, <1>2 DEF LeavesOneOut, SameTabs
<1>4. TabsOK(u)
  BY <1>2, <1>3 DEF TabsOK
<1> QED BY <1>4 DEF u

(* Only the timer of a key or the option are changed. *)
LEMMA AsideKept ==
  ASSUME NEW s, TabsOK(s), NEW timer, NEW collapsible \in BOOLEAN,
         NEW u, u = [s EXCEPT !.activating = timer] \/ u = [s EXCEPT !.collapsible = collapsible]
  PROVE  TabsOK(u)
<1>1. s \in TabsRecords(s.activating)
  BY DEF TabsOK, TabsTyped
<1>2. u \in TabsRecords(u.activating)
  <2>1. CASE u = [s EXCEPT !.activating = timer]
    BY <1>1, <2>1 DEF TabsRecords
  <2>2. CASE u = [s EXCEPT !.collapsible = collapsible]
    BY <1>1, <2>2 DEF TabsRecords
  <2> QED BY <2>1, <2>2
<1>3. /\ u.there = s.there /\ u.tabs = s.tabs /\ u.active = s.active /\ u.index = s.index /\ u.disabled = s.disabled
      /\ u.running = s.running /\ u.old = s.old /\ u.new = s.new /\ u.shown = s.shown /\ u.missed = s.missed
  BY <1>1 DEF TabsRecords
<1>4. \A t : Position(u, t) = Position(s, t)
  BY <1>3 DEF Position
<1>5. TabsTyped(u) /\ IndexFollows(u)
  BY <1>2, <1>3, <1>4 DEF TabsOK, TabsTyped, IndexFollows
<1>6. LeavesOneOut(u) /\ NewFollows(u) /\ PanelFollows(u)
  BY <1>3 DEF TabsOK, LeavesOneOut, NewFollows, PanelFollows
<1> QED BY <1>5, <1>6 DEF TabsOK

LEMMA AnimationEndsKept ==
  ASSUME TabsOK(tabs), AnimationEnds
  PROVE  TabsOK(tabs')
<1> DEFINE s == tabs
           u == tabs'
<1>1. TabsTyped(s) /\ s \in TabsRecords(s.activating) /\ IndexFollows(s) /\ LeavesOneOut(s) /\ NewFollows(s) /\ PanelFollows(s)
  BY DEF TabsOK, TabsTyped
<1>0. s.shown \subseteq s.there
  BY <1>1 DEF TabsTyped
<1>2. CASE s.running = "hide"
  <2> DEFINE w == [s EXCEPT !.shown = @ \ {s.old}]
  <2>1. u = beginShow(w)
    BY <1>2 DEF AnimationEnds
  <2>2. w \in TabsRecords(s.activating) /\ w.shown = s.shown \ {s.old}
    BY <1>1 DEF TabsRecords
  <2>3. SameTabs(s, w) /\ w.active = s.active /\ w.index = s.index /\ w.old = s.old /\ w.new = s.new
    BY <1>1 DEF TabsRecords, SameTabs
  <2> HIDE DEF w, u, s
  <2>4. w.activating = s.activating
    BY <2>3 DEF SameTabs
  <2>5. BeginShowFacts(w, u)
    BY <2>1, <2>2, <2>4, BeginShowIs
  <2>6. SameTabs(s, u) /\ w.there = s.there
    BY <2>3, <2>5 DEF BeginShowFacts, SameTabs
  <2>7. /\ u \in TabsRecords(s.activating) /\ u.active = s.active /\ u.index = s.index
        /\ (u.running = "show" /\ u.new = s.new) \/ (u.running = "no")
        /\ u.shown = (s.shown \ {s.old}) \cup ({s.new} \cap s.there)
    BY <2>2, <2>3, <2>4, <2>5, <2>6 DEF BeginShowFacts
  <2>8. /\ u.there = s.there /\ u.tabs = s.tabs /\ u.disabled = s.disabled /\ u.missed = s.missed
        /\ u.activating = s.activating
    BY <2>6 DEF SameTabs
  <2>9. TabsTyped(u)
    BY <1>0, <1>1, <2>7, <2>8 DEF TabsTyped
  <2>10. Position(u, u.active) = Position(s, s.active)
    BY <2>7, <2>8 DEF Position
  <2>11. IndexFollows(u) /\ LeavesOneOut(u)
    BY <1>1, <2>7, <2>8, <2>10 DEF IndexFollows, LeavesOneOut
  <2>12. s.active = s.new \/ (s.active = NoTab /\ s.new \notin s.there)
    BY <1>1, <1>2 DEF NewFollows, s
  <2>13. NewFollows(u)
    BY <2>7, <2>8, <2>12 DEF NewFollows
  <2>14. ~s.missed => (s.shown \ {s.old}) \cap Range(s.tabs) \subseteq {s.new} \cap s.there
    BY <1>0, <1>1, <1>2 DEF PanelFollows, s
  <2>17. ~s.missed => {s.active} \cap s.there \subseteq Range(s.tabs)
    <3>1. NoTab \notin s.there
      BY <1>1, TabsAre
    <3>2. Position(s, s.active) = NoTab <=> s.active \notin Range(s.tabs)
      BY <1>1, PositionIs
    <3> QED BY <1>1, <3>1, <3>2 DEF IndexFollows
  <2>15. {s.active} \cap s.there = {s.new} \cap s.there
    <3>1. NoTab \notin s.there
      BY <1>1, TabsAre
    <3> QED BY <2>12, <3>1
  <2>16. PanelFollows(u)
    BY <2>7, <2>8, <2>14, <2>15, <2>17 DEF PanelFollows
  <2> QED BY <2>9, <2>11, <2>13, <2>16 DEF TabsOK, u
<1>3. CASE s.running = "show" /\ s.running # "hide"
  <2>1. u = [s EXCEPT !.running = "no", !.old = NoTab, !.new = NoTab]
    BY <1>3 DEF AnimationEnds
  <2>2. NoTab \in 0..TabCount
    BY TabsAssumption DEF NoTab
  <2> HIDE DEF u, s
  <2>3. u \in TabsRecords(s.activating)
    BY <1>1, <2>1, <2>2 DEF TabsRecords
  <2>4. /\ u.there = s.there /\ u.tabs = s.tabs /\ u.active = s.active /\ u.index = s.index /\ u.disabled = s.disabled
        /\ u.running = "no" /\ u.shown = s.shown /\ u.missed = s.missed /\ u.activating = s.activating
    BY <1>1, <2>1 DEF TabsRecords
  <2>5. Position(u, u.active) = Position(s, s.active)
    BY <2>4 DEF Position
  <2>6. TabsTyped(u) /\ IndexFollows(u) /\ LeavesOneOut(u) /\ NewFollows(u)
    BY <1>0, <1>1, <2>3, <2>4, <2>5 DEF TabsTyped, IndexFollows, LeavesOneOut, NewFollows
  <2>7. {s.active} \cap s.there = {s.new} \cap s.there
    <3>1. NoTab \notin s.there
      BY <1>1, TabsAre
    <3>2. s.active = s.new \/ (s.active = NoTab /\ s.new \notin s.there)
      BY <1>1, <1>3 DEF NewFollows
    <3> QED BY <3>1, <3>2
  <2>8. PanelFollows(u)
    BY <1>1, <1>3, <2>4, <2>7 DEF PanelFollows
  <2> QED BY <2>6, <2>8 DEF TabsOK, u
<1> QED BY <1>2, <1>3 DEF AnimationEnds

(* A list of disabled tabs that would name all of them is true instead.    *)
DisabledFacts(s, u) ==
  /\ u \in TabsRecords(s.activating)
  /\ LeavesOneOut(u)
  /\ u.there = s.there /\ u.tabs = s.tabs /\ u.active = s.active /\ u.index = s.index
  /\ u.running = s.running /\ u.old = s.old /\ u.new = s.new /\ u.shown = s.shown /\ u.missed = s.missed
  /\ u.activating = s.activating

LEMMA DisabledIs ==
  ASSUME NEW s, TabsTyped(s), NEW disabled \in SUBSET (DOMAIN s.tabs)
  PROVE  DisabledFacts(s, setOptionDisabled(s, disabled))
<1> DEFINE set == IF Cardinality(disabled) = Len(s.tabs) /\ disabled # {} THEN All ELSE disabled
           off == (s.off \ Range(s.tabs)) \cup {t \in Range(s.tabs) : Position(s, t) \in set}
           u == setOptionDisabled(s, disabled)
<1>1. u = [s EXCEPT !.disabled = set, !.off = off]
  BY DEF setOptionDisabled
<1>2. s \in TabsRecords(s.activating)
  BY DEF TabsTyped
<1>3. DOMAIN s.tabs = 1..Len(s.tabs) /\ Len(s.tabs) \in Nat /\ Len(s.tabs) <= TabCount /\ Range(s.tabs) \subseteq AllTabs
  BY TabsAre
<1>4. set \in SUBSET (0..TabCount)
  <2>1. disabled \subseteq 0..TabCount
    BY <1>3, TabsAssumption
  <2>2. All = 0..TabCount
    BY DEF All
  <2> QED BY <2>1, <2>2
<1>5. off \subseteq AllTabs
  <2>1. s.off \subseteq AllTabs
    BY <1>2 DEF TabsRecords
  <2> HIDE DEF set
  <2> QED BY <1>3, <2>1
<1>6. set # All => DOMAIN s.tabs = {} \/ DOMAIN s.tabs \ set # {}
  <2> SUFFICES ASSUME set # All, DOMAIN s.tabs \ set = {} PROVE DOMAIN s.tabs = {}
    OBVIOUS
  <2>1. set = disabled /\ (Cardinality(disabled) # Len(s.tabs) \/ disabled = {})
    OBVIOUS
  <2>2. disabled = 1..Len(s.tabs)
    BY <1>3, <2>1
  <2>3. Cardinality(1..Len(s.tabs)) = Len(s.tabs)
    <3>1. Len(s.tabs) \in Int /\ 1 \in Int
      BY <1>3
    <3>2. Cardinality(1..Len(s.tabs)) = IF 1 > Len(s.tabs) THEN 0 ELSE Len(s.tabs) - 1 + 1
      BY <3>1, FS_Interval
    <3> QED BY <1>3, <3>2
  <2>4. disabled = {}
    BY <2>1, <2>2, <2>3
  <2> QED BY <1>3, <2>2, <2>4
<1> HIDE DEF set, off, u
<1>7. u \in TabsRecords(s.activating)
  BY <1>1, <1>2, <1>4, <1>5 DEF TabsRecords
<1>8. u.disabled = set
  BY <1>1, <1>2 DEF TabsRecords
<1>9. /\ u.there = s.there /\ u.tabs = s.tabs /\ u.active = s.active /\ u.index = s.index
      /\ u.running = s.running /\ u.old = s.old /\ u.new = s.new /\ u.shown = s.shown /\ u.missed = s.missed
      /\ u.activating = s.activating
  BY <1>1, <1>2 DEF TabsRecords
<1>10. DisabledFacts(s, u)
  BY <1>6, <1>7, <1>8, <1>9 DEF DisabledFacts, LeavesOneOut
<1> QED BY <1>10 DEF u

LEMMA DisabledKept ==
  ASSUME NEW s, TabsOK(s), NEW disabled \in SUBSET (DOMAIN s.tabs)
  PROVE  TabsOK(setOptionDisabled(s, disabled))
<1> DEFINE u == setOptionDisabled(s, disabled)
<1>1. TabsTyped(s)
  BY DEF TabsOK
<1>2. DisabledFacts(s, u)
  BY <1>1, DisabledIs
<1> HIDE DEF u
<1>3. Position(u, u.active) = Position(s, s.active)
  BY <1>2 DEF DisabledFacts, Position
<1>4. TabsTyped(u)
  BY <1>1, <1>2 DEF DisabledFacts, TabsTyped
<1>5. IndexFollows(u)
  BY <1>2, <1>3 DEF DisabledFacts, TabsOK, IndexFollows
<1>6. LeavesOneOut(u)
  BY <1>2 DEF DisabledFacts
<1>7. NewFollows(u) /\ PanelFollows(u)
  BY <1>2 DEF DisabledFacts, TabsOK, NewFollows, PanelFollows
<1> QED BY <1>4, <1>5, <1>6, <1>7 DEF TabsOK, u

LEMMA AbleKept ==
  ASSUME NEW i, NEW disable \in BOOLEAN, TabsOK(tabs), Able(i, disable)
  PROVE  TabsOK(tabs')
<1>1. CASE i = NoTab
  <2> DEFINE d == IF disable THEN DOMAIN tabs.tabs ELSE {}
  <2>1. tabs' = setOptionDisabled(tabs, d)
    BY <1>1 DEF Able
  <2>2. d \in SUBSET (DOMAIN tabs.tabs)
    OBVIOUS
  <2> HIDE DEF d
  <2> QED BY <2>1, <2>2, DisabledKept
<1>2. CASE i # NoTab
  <2> DEFINE indexes == tabs.disabled \cap DOMAIN tabs.tabs
             d == IF disable THEN indexes \cup {i} ELSE indexes \ {i}
  <2>1. tabs' = setOptionDisabled(tabs, d)
    BY <1>2 DEF Able
  <2>2. d \in SUBSET (DOMAIN tabs.tabs)
    BY <1>2 DEF Able
  <2> HIDE DEF d
  <2> QED BY <2>1, <2>2, DisabledKept
<1> QED BY <1>1, <1>2

(* An answer, and the page that takes a tab away or puts one in.           *)
LEMMA LoadingKept ==
  ASSUME NEW t \in AllTabs, TabsOK(tabs), Answered(t) \/ Loaded(t)
  PROVE  TabsOK(tabs')
<1> DEFINE s == tabs
           u == tabs'
<1>1. s \in TabsRecords(s.activating)
  BY DEF TabsOK, TabsTyped
<1>2. PICK status \in {"no", "done"}, xhr \in {NoTab} \cup Remote :
        u = [s EXCEPT !.loading[t] = status, !.xhr = xhr] \/ u = [s EXCEPT !.loading[t] = status]
  <2>1. CASE Answered(t)
    BY <2>1 DEF Answered
  <2>2. CASE Loaded(t)
    <3> DEFINE x == IF s.xhr = t THEN NoTab ELSE s.xhr
    <3>1. x \in {NoTab} \cup Remote
      BY <1>1 DEF TabsRecords
    <3>2. u = [s EXCEPT !.loading[t] = "no", !.xhr = x]
      BY <2>2 DEF Loaded
    <3> QED BY <3>1, <3>2
  <2> QED BY <2>1, <2>2
<1> DEFINE loading == [s.loading EXCEPT ![t] = status]
<1>3. loading \in [AllTabs -> {"no", "sent", "done"}]
  BY <1>1 DEF TabsRecords
<1>4. u = [s EXCEPT !.loading = loading, !.xhr = xhr] \/ u = [s EXCEPT !.loading = loading]
  BY <1>2
<1> HIDE DEF loading, s, u
<1>5. u \in TabsRecords(s.activating)
  BY <1>1, <1>3, <1>4 DEF TabsRecords
<1>6. /\ u.there = s.there /\ u.tabs = s.tabs /\ u.active = s.active /\ u.index = s.index /\ u.disabled = s.disabled
      /\ u.running = s.running /\ u.old = s.old /\ u.new = s.new /\ u.shown = s.shown /\ u.missed = s.missed
      /\ u.activating = s.activating
  BY <1>1, <1>4 DEF TabsRecords
<1>7. Position(u, u.active) = Position(s, s.active)
  BY <1>6 DEF Position
<1>8. TabsOK(s)
  BY DEF s
<1>9. TabsTyped(u) /\ IndexFollows(u)
  BY <1>5, <1>6, <1>7, <1>8 DEF TabsOK, TabsTyped, IndexFollows
<1>10. LeavesOneOut(u) /\ NewFollows(u) /\ PanelFollows(u)
  BY <1>6, <1>8 DEF TabsOK, LeavesOneOut, NewFollows, PanelFollows
<1> QED BY <1>9, <1>10 DEF TabsOK, u

LEMMA ChangeTabKept ==
  ASSUME NEW t \in AllTabs, TabsOK(tabs), Change(t)
  PROVE  TabsOK(tabs')
<1> DEFINE s == tabs
           u == tabs'
<1>1. s \in TabsRecords(s.activating) /\ TabsTyped(s)
  BY DEF TabsOK, TabsTyped
<1>2. /\ u.tabs = s.tabs /\ u.active = s.active /\ u.index = s.index /\ u.disabled = s.disabled
      /\ u.running = s.running /\ u.old = s.old /\ u.new = s.new /\ u.missed = s.missed
      /\ u.activating = s.activating
  BY <1>1 DEF Change, TabsRecords
<1>3. /\ u.there = (IF t \in s.there THEN s.there \ {t} ELSE s.there \cup {t})
      /\ u.shown = (IF t \in s.there THEN s.shown \ {t} ELSE s.shown \cup ({t} \ Remote))
  BY <1>1 DEF Change, TabsRecords
<1>4. u \in TabsRecords(s.activating)
  <2>1. CASE t \in s.there
    BY <1>1, <2>1 DEF Change, TabsRecords
  <2>2. CASE t \notin s.there
    <3> DEFINE there == s.there \cup {t}
               seen == s.shown \cup ({t} \ Remote)
    <3>1. there \in SUBSET AllTabs /\ seen \in SUBSET AllTabs
      BY <1>1 DEF TabsRecords
    <3>2. u = [s EXCEPT !.there = there, !.shown = seen]
      BY <2>2 DEF Change
    <3> HIDE DEF there, seen, s, u
    <3> QED BY <1>1, <3>1, <3>2 DEF TabsRecords
  <2> QED BY <2>1, <2>2
<1>5. t \notin s.there => t \notin {s.active, s.old, s.new} \cup Range(s.tabs)
  BY DEF Change
<1>6. TabsOK(s)
  OBVIOUS
<1> HIDE DEF s, u
<1>7. Position(u, u.active) = Position(s, s.active)
  BY <1>2 DEF Position
<1>8. TabsTyped(u)
  BY <1>1, <1>2, <1>3, <1>4 DEF TabsTyped
<1>9. IndexFollows(u) /\ LeavesOneOut(u)
  BY <1>2, <1>6, <1>7 DEF TabsOK, IndexFollows, LeavesOneOut
<1>10. NewFollows(u)
  BY <1>2, <1>3, <1>5, <1>6 DEF TabsOK, NewFollows
<1>11. PanelFollows(u)
  <2>1. s.shown \subseteq s.there
    BY <1>1 DEF TabsTyped
  <2>2. PanelFollows(s)
    BY <1>6 DEF TabsOK
  <2>3. CASE t \in s.there
    BY <1>2, <1>3, <2>2, <2>3 DEF PanelFollows
  <2>4. CASE t \notin s.there
    BY <1>2, <1>3, <1>5, <2>2, <2>4 DEF PanelFollows
  <2> QED BY <2>3, <2>4
<1> QED BY <1>8, <1>9, <1>10, <1>11 DEF TabsOK, u

(* The active tab of the refreshed list: at its index, or gone. *)
Settled(s) ==
  /\ TabsTyped(s)
  /\ s.index = NoTab => s.active = NoTab
  /\ s.active \notin s.there \cup {NoTab} \/ s.index = Position(s, s.active)
  /\ NewFollows(s)

LEMMA RefreshActiveIs ==
  ASSUME NEW s, TabsTyped(s), Range(s.tabs) = s.there, s.index = NoTab => s.active = NoTab, NewFollows(s),
         NEW allow \in BOOLEAN
  PROVE  Settled(refreshActive(s, allow)) /\ SameTabs(s, refreshActive(s, allow))
<1> DEFINE u == refreshActive(s, allow)
<1>1. s \in TabsRecords(s.activating) /\ NoTab \in 0..TabCount
  BY TabsAssumption DEF TabsTyped, NoTab
<1>2. NoTab \notin Range(s.tabs)
  BY TabsAre
<1>3. ASSUME NEW i \in 0..TabCount, NEW n \in 0..TabCount, NEW w,
             w = [s EXCEPT !.index = i, !.active = n],
             i = NoTab => n = NoTab,
             i = Position(s, n),
             n = s.active \/ (n = NoTab /\ (s.running # "no" => s.new \notin s.there \/ s.new = NoTab))
      PROVE  Settled(w) /\ SameTabs(s, w)
  <2>1. w \in TabsRecords(s.activating)
    BY <1>1, <1>3 DEF TabsRecords
  <2>2. /\ w.index = i /\ w.active = n /\ w.there = s.there /\ w.tabs = s.tabs /\ w.activating = s.activating
        /\ w.running = s.running /\ w.new = s.new /\ w.shown = s.shown
    BY <1>1, <1>3 DEF TabsRecords
  <2>3. SameTabs(s, w)
    BY <1>1, <1>3 DEF TabsRecords, SameTabs
  <2>4. Position(w, n) = Position(s, n)
    BY <2>2 DEF Position
  <2>5. TabsTyped(w)
    BY <2>1, <2>2 DEF TabsTyped
  <2>6. NewFollows(w)
    BY <1>3, <2>2 DEF NewFollows
  <2> QED BY <1>3, <2>2, <2>3, <2>4, <2>5, <2>6 DEF Settled
<1>4. ASSUME u = [s EXCEPT !.index = NoTab, !.active = NoTab],
             s.running # "no" => s.new \notin s.there \/ s.new = NoTab
      PROVE  Settled(u) /\ SameTabs(s, u)
  <2>1. Position(s, NoTab) = NoTab
    BY <1>2 DEF Position
  <2> QED BY <1>1, <1>3, <1>4, <2>1
<1>5. CASE s.index = NoTab \/ s.tabs = <<>>
  <2>1. u = [s EXCEPT !.index = NoTab, !.active = NoTab]
    BY <1>5 DEF refreshActive
  <2>2. s.tabs = <<>> => s.there = {}
    <3>1. s.tabs = <<>> => DOMAIN s.tabs = {}
      <4>1. DOMAIN s.tabs = 1..Len(s.tabs) /\ Len(s.tabs) \in Nat /\ (s.tabs = <<>> <=> Len(s.tabs) = 0)
        BY TabsAre
      <4> QED BY <4>1
    <3> QED BY <3>1 DEF Range
  <2>3. s.running # "no" => s.new \notin s.there \/ s.new = NoTab
    BY <1>5, <2>2 DEF NewFollows
  <2> QED BY <1>4, <2>1, <2>3
<1>6. CASE s.index # NoTab /\ s.tabs # <<>> /\ s.active # NoTab /\ s.active \notin s.there
  <2>1. s.running # "no" => s.new \notin s.there
    BY <1>6 DEF NewFollows
  <2>2. CASE Cardinality(s.disabled) = Len(s.tabs)
    <3>1. u = [s EXCEPT !.index = NoTab, !.active = NoTab]
      BY <1>6, <2>2 DEF refreshActive
    <3> QED BY <1>4, <2>1, <3>1
  <2>3. CASE Cardinality(s.disabled) # Len(s.tabs)
    <3> DEFINE i == findNextTab(s, IF s.index > 1 THEN s.index - 1 ELSE 1, FALSE)
    <3>1. u = activate(s, i, allow)
      BY <1>6, <2>3 DEF refreshActive
    <3> HIDE DEF i, u
    <3>2. TabsTyped(u) /\ SameTabs(s, u) /\ (u = s \/ (IndexIs(u) /\ NewFollows(u)))
      BY <3>1, ActivateTabFollows
    <3>3. CASE u = s
      BY <1>6, <3>2, <3>3 DEF Settled, u
    <3>4. CASE u # s
      BY <3>2, <3>4 DEF Settled, IndexIs, u
    <3> QED BY <3>3, <3>4 DEF u
  <2> QED BY <2>2, <2>3
<1>7. CASE s.index # NoTab /\ s.tabs # <<>> /\ ~(s.active # NoTab /\ s.active \notin s.there)
  <2> DEFINE i == Position(s, s.active)
  <2>1. u = [s EXCEPT !.index = i]
    BY <1>7 DEF refreshActive
  <2>2. i \in 0..TabCount /\ (i = NoTab => s.active = NoTab)
    BY <1>7, PositionIs
  <2>3. s.active \in 0..TabCount
    BY <1>1 DEF TabsRecords
  <2>4. u = [s EXCEPT !.index = i, !.active = s.active]
    <3> HIDE DEF i, u
    <3> QED BY <1>1, <2>1 DEF TabsRecords
  <2>5. i = Position(s, s.active)
    OBVIOUS
  <2> HIDE DEF i, u
  <2>6. Settled(u) /\ SameTabs(s, u)
    BY <1>3, <2>2, <2>3, <2>4, <2>5
  <2> QED BY <2>6 DEF u
<1> QED BY <1>5, <1>6, <1>7

LEMMA RefreshKept ==
  ASSUME TabsOK(tabs), NEW allow \in BOOLEAN, Refresh(allow)
  PROVE  TabsOK(tabs')
<1> DEFINE s == tabs
           l == Listed(s.there)
           dis == {i \in 1..Cardinality(s.there) : l[i] \in s.off}
           r == [s EXCEPT !.tabs = l, !.disabled = dis]
           v == refreshActive(r, allow)
           d == setOptionDisabled(v, v.disabled)
           page == {v.active} \cap s.there
           gone == v.active \notin s.there \cup {NoTab}
           u == tabs'
<1>1. u = [d EXCEPT !.shown = page, !.missed = gone]
  BY DEF Refresh, refresh
<1>2. s \in TabsRecords(s.activating) /\ TabsTyped(s) /\ s.there \in SUBSET AllTabs
  BY DEF TabsOK, TabsTyped, TabsRecords
<1>3. /\ l \in Seq(AllTabs) /\ Len(l) = Cardinality(s.there)
      /\ Cardinality(s.there) \in Nat /\ Cardinality(s.there) <= TabCount /\ Range(l) = s.there
  BY <1>2, ListedIs
<1>4. DOMAIN l = 1..Cardinality(s.there)
  <2> HIDE DEF l, s
  <2> QED BY <1>3, LenProperties
<1>5. dis \subseteq DOMAIN l /\ dis \in SUBSET (0..TabCount)
  <2>1. dis \subseteq 1..Cardinality(s.there)
    OBVIOUS
  <2>2. 1..Cardinality(s.there) \subseteq 0..TabCount
    BY <1>3, TabsAssumption
  <2> HIDE DEF dis, l, s
  <2> QED BY <1>4, <2>1, <2>2
<1>0. TabsOK(s)
  OBVIOUS
<1> HIDE DEF s, l, dis, d, v, page, gone, u
<1>6. r \in TabsRecords(s.activating) /\ r.tabs = l /\ r.disabled = dis
  BY <1>2, <1>3, <1>5 DEF TabsRecords
<1>7. /\ r.there = s.there /\ r.active = s.active /\ r.index = s.index /\ r.running = s.running
      /\ r.old = s.old /\ r.new = s.new /\ r.shown = s.shown /\ r.activating = s.activating
  BY <1>2 DEF TabsRecords
<1> HIDE DEF r
<1>8. TabsTyped(r) /\ (r.index = NoTab => r.active = NoTab) /\ NewFollows(r)
  BY <1>0, <1>2, <1>3, <1>6, <1>7 DEF TabsOK, TabsTyped, IndexFollows, NewFollows
<1>9. Settled(v) /\ SameTabs(r, v)
  BY <1>3, <1>6, <1>7, <1>8, RefreshActiveIs DEF v
<1>10. v.disabled \in SUBSET (DOMAIN v.tabs) /\ v.there = s.there /\ TabsTyped(v)
  BY <1>5, <1>6, <1>7, <1>9 DEF SameTabs, Settled
<1>11. DisabledFacts(v, d)
  BY <1>10, DisabledIs DEF d
<1>12. page \subseteq AllTabs /\ page \subseteq s.there /\ gone \in BOOLEAN
  BY <1>2 DEF page, gone
<1>13. d \in TabsRecords(v.activating) /\ d.activating = v.activating
  BY <1>11 DEF DisabledFacts
<1>14. u \in TabsRecords(u.activating) /\ u.shown = page /\ u.missed = gone
  BY <1>1, <1>12, <1>13 DEF TabsRecords
<1>15. /\ u.there = d.there /\ u.tabs = d.tabs /\ u.active = d.active /\ u.index = d.index /\ u.disabled = d.disabled
       /\ u.running = d.running /\ u.old = d.old /\ u.new = d.new
  BY <1>1, <1>13 DEF TabsRecords
<1>16. /\ u.there = s.there /\ u.tabs = v.tabs /\ u.active = v.active /\ u.index = v.index
       /\ u.running = v.running /\ u.old = v.old /\ u.new = v.new
  BY <1>10, <1>11, <1>15 DEF DisabledFacts
<1>17. TabsTyped(u)
  BY <1>10, <1>12, <1>14, <1>16 DEF TabsTyped
<1>18. Position(u, u.active) = Position(v, v.active)
  BY <1>16 DEF Position
<1>19. IndexFollows(u)
  BY <1>9, <1>10, <1>14, <1>16, <1>18 DEF IndexFollows, Settled, gone
<1>20. LeavesOneOut(u)
  BY <1>11, <1>15 DEF DisabledFacts, LeavesOneOut
<1>21. NewFollows(u)
  BY <1>9, <1>10, <1>16 DEF NewFollows, Settled
<1>22. PanelFollows(u)
  <2>1. NoTab \notin u.there /\ Range(u.tabs) = u.there
    BY <1>3, <1>6, <1>9, <1>16, <1>17, TabsAre DEF SameTabs
  <2>2. u.shown = {u.active} \cap u.there
    BY <1>14, <1>16 DEF page
  <2> QED BY <1>21, <2>1, <2>2 DEF PanelFollows, NewFollows
<1> QED BY <1>17, <1>19, <1>20, <1>21, <1>22 DEF TabsOK, u

LEMMA TabsBegin ==
  ASSUME TabsInit
  PROVE  TabsOK(tabs)
<1> DEFINE l == Listed(AllTabs)
           s == tabs
           loading == [t \in AllTabs |-> IF t = 1 /\ 1 \in Remote THEN "sent" ELSE "no"]
           xhr == IF 1 \in Remote THEN 1 ELSE NoTab
<1>1. l \in Seq(AllTabs) /\ Len(l) <= TabCount /\ Range(l) = AllTabs
  BY ListedIs
<1>2. PICK collapsible \in BOOLEAN, animated \in BOOLEAN :
        s = [there |-> AllTabs, tabs |-> l, active |-> 1, index |-> 1, disabled |-> {}, off |-> {},
             running |-> "no", old |-> NoTab, new |-> NoTab, shown |-> {1}, loading |-> loading, xhr |-> xhr,
             activating |-> NoTab, collapsible |-> collapsible, animated |-> animated, missed |-> FALSE]
  BY DEF TabsInit
<1>3. 1 \in AllTabs /\ 1 \in 0..TabCount /\ NoTab \in 0..TabCount /\ 1 # NoTab
  BY TabsAssumption DEF AllTabs, NoTab
<1>4. \A i \in DOMAIN l : l[i] = i
  <2>1. l = [i \in 1..Cardinality(AllTabs) |->
              CHOOSE e \in AllTabs : Cardinality({d \in AllTabs : d < e}) = i - 1]
    BY DEF Listed
  <2> HIDE DEF l
  <2> QED BY <2>1, TabsAssumption, RankedInterval DEF AllTabs
<1>5. loading \in [AllTabs -> {"no", "sent", "done"}] /\ xhr \in {NoTab} \cup Remote
  OBVIOUS
<1> HIDE DEF l, s, loading, xhr
<1>6. /\ s.there = AllTabs /\ s.tabs = l /\ s.active = 1 /\ s.index = 1 /\ s.disabled = {}
      /\ s.running = "no" /\ s.shown = {1} /\ s.missed = FALSE /\ s.activating = NoTab
  BY <1>2
<1>7. s \in TabsRecords(NoTab)
  BY <1>1, <1>2, <1>3, <1>5 DEF TabsRecords
<1>8. TabsTyped(s)
  BY <1>1, <1>3, <1>6, <1>7 DEF TabsTyped
<1>9. Position(s, 1) = 1
  <2>1. Position(s, 1) \in DOMAIN l /\ l[Position(s, 1)] = 1
    <3>1. \E i \in DOMAIN l : l[i] = 1
      BY <1>1, <1>3 DEF Range
    <3> QED BY <1>1, <1>3, <1>6, <3>1 DEF Position
  <2> QED BY <1>4, <2>1
<1>10. IndexFollows(s) /\ LeavesOneOut(s) /\ NewFollows(s)
  BY <1>3, <1>6, <1>9 DEF IndexFollows, LeavesOneOut, NewFollows
<1>11. PanelFollows(s)
  <2>1. Range(s.tabs) = AllTabs
    BY <1>1, <1>6
  <2> QED BY <1>3, <1>6, <2>1 DEF PanelFollows
<1> QED BY <1>8, <1>10, <1>11 DEF TabsOK, s

LEMMA TabsStepKeeps ==
  ASSUME TabsOK(tabs), TabsNext
  PROVE  TabsOK(tabs')
<1>0. tabs.collapsible \in BOOLEAN
  BY DEF TabsOK, TabsTyped, TabsRecords
<1>1. ASSUME NEW t \in AllTabs, NEW allow \in BOOLEAN, Click(t, allow) PROVE TabsOK(tabs')
  BY <1>1, EventKept DEF Click, Present
<1>2. ASSUME NEW t \in AllTabs, Answered(t) \/ Loaded(t) PROVE TabsOK(tabs')
  BY <1>2, LoadingKept
<1>3. ASSUME NEW t \in AllTabs, Change(t) PROVE TabsOK(tabs')
  BY <1>3, ChangeTabKept
<1>4. \A timer : TabsOK([tabs EXCEPT !.activating = timer])
  BY <1>0, AsideKept
<1>5. ASSUME NEW t \in AllTabs, NEW b \in BOOLEAN, Arrow(t, b) PROVE TabsOK(tabs')
  BY <1>4, <1>5 DEF Arrow
<1>6. ASSUME NEW t \in AllTabs, NEW b \in BOOLEAN, NEW allow \in BOOLEAN, Press(t, b, allow)
      PROVE  TabsOK(tabs')
  BY <1>4, <1>6, ActivateTabKept DEF Press
<1>7. ASSUME NEW b \in BOOLEAN, NEW allow \in BOOLEAN, PageNav(b, allow) PROVE TabsOK(tabs')
  BY <1>7, ActivateTabKept DEF PageNav
<1>8. ASSUME NEW b \in BOOLEAN, NEW allow \in BOOLEAN, SetCollapsible(b, allow) PROVE TabsOK(tabs')
  <2> DEFINE w == [tabs EXCEPT !.collapsible = b]
  <2>1. TabsOK(w)
    BY AsideKept
  <2>2. tabs' = w \/ tabs' = activate(w, 1, allow)
    BY <1>8 DEF SetCollapsible
  <2> HIDE DEF w
  <2> QED BY <2>1, <2>2, ActivateTabKept
<1>9. ASSUME NEW b \in BOOLEAN, NEW i \in 0..TabCount, Able(i, b) PROVE TabsOK(tabs')
  BY <1>9, AbleKept
<1>10. ASSUME NEW allow \in BOOLEAN, Activating(allow) PROVE TabsOK(tabs')
  BY <1>4, <1>10, ActivateTabKept DEF Activating
<1>11. ASSUME AnimationEnds PROVE TabsOK(tabs')
  BY <1>11, AnimationEndsKept
<1>12. ASSUME NEW allow \in BOOLEAN, Refresh(allow) PROVE TabsOK(tabs')
  BY <1>12, RefreshKept
<1> QED BY <1>1, <1>2, <1>3, <1>5, <1>6, <1>7, <1>8, <1>9, <1>10, <1>11, <1>12 DEF TabsNext

TabsAgree == TabsTypeOK /\ IndexOfActive /\ SearchEnds /\ OnePanelShown

LEMMA TabsHold ==
  ASSUME TabsOK(tabs)
  PROVE  TabsAgree
<1>1. {NoTab} \cup AllTabs = 0..TabCount
  BY TabsAssumption DEF NoTab, AllTabs
<1>2. TabsTypeOK
  BY <1>1 DEF TabsOK, TabsTyped, TabsRecords, TabsTypeOK
<1>3. IndexOfActive /\ SearchEnds /\ OnePanelShown
  BY DEF TabsOK, IndexFollows, LeavesOneOut, PanelFollows, IndexOfActive, SearchEnds, OnePanelShown
<1> QED BY <1>2, <1>3 DEF TabsAgree

-------------------------------------------------------------------------------
(* Accordion.                                                              *)

AccordionRecords ==
  [there : SUBSET AllHeaders, headers : Seq(AllHeaders), active : 0..HeaderCount, index : 0..HeaderCount,
   prevShow : 0..HeaderCount, prevHide : 0..HeaderCount, running : BOOLEAN, oldPanel : 0..HeaderCount,
   shown : SUBSET AllHeaders, marked : SUBSET AllHeaders, collapsible : BOOLEAN, animate : BOOLEAN,
   refused : BOOLEAN, stuck : BOOLEAN]

AccordionTyped(s) ==
  /\ s \in AccordionRecords
  /\ Len(s.headers) <= HeaderCount
  /\ s.shown \cup s.marked \subseteq s.there

(* The option agrees with the header.                                      *)
ActiveFollows(s) ==
  /\ s.active \in Range(s.headers) \cup {NoHeader}
  /\ s.index = IndexOf(s, s.active)
  /\ s.active = NoHeader => s.collapsible \/ s.headers = <<>> \/ s.refused

(* The class is on no other panel than the active one and the one that an  *)
(* animation hides; what was shown last is the active panel or is gone.    *)
MarksFollow(s) ==
  /\ s.prevShow \in {s.active, NoHeader} \/ (s.active = NoHeader /\ s.prevShow \notin s.there \cup Range(s.headers))
  /\ s.marked \subseteq {s.active} \cup (IF s.running THEN {s.oldPanel} ELSE {})
  /\ s.running /\ s.active # NoHeader => s.active \notin {s.prevHide, s.oldPanel}

(* To be seen is the active panel, and the one that an animation hides.    *)
ShownFollows(s) ==
  /\ s.shown \cap Range(s.headers) \subseteq {s.active} \cup (IF s.running THEN {s.prevHide} ELSE {})
  /\ OnPage(s, s.active) \subseteq s.shown \cap s.marked

AccordionFollows(s) == ActiveFollows(s) /\ MarksFollow(s) /\ ShownFollows(s)

SameAccordion(s, t) ==
  t.there = s.there /\ t.headers = s.headers /\ t.collapsible = s.collapsible /\ t.animate = s.animate /\ t.stuck = s.stuck

LEMMA FinishIs ==
  ASSUME NEW s \in AccordionRecords
  PROVE  /\ finish(s) \in AccordionRecords
         /\ SameAccordion(s, finish(s))
         /\ finish(s).active = s.active /\ finish(s).index = s.index /\ finish(s).refused = s.refused
         /\ finish(s).prevShow = s.prevShow /\ finish(s).prevHide = s.prevHide /\ finish(s).oldPanel = s.oldPanel
         /\ finish(s).running = FALSE
         /\ finish(s).shown = s.shown \ (IF s.running THEN {s.prevHide} ELSE {})
         /\ finish(s).marked = s.marked \ (IF s.running THEN {s.oldPanel} ELSE {})
<1>1. CASE s.running
  BY <1>1 DEF finish, AccordionRecords, SameAccordion
<1>2. CASE ~s.running
  BY <1>2 DEF finish, AccordionRecords, SameAccordion
<1> QED BY <1>1, <1>2

toHide(s, old) == IF s.prevShow # NoHeader THEN s.prevShow ELSE old
hidden(s) == IF s.running THEN {s.prevHide} ELSE {}
begunToggle(s, toShow, old) ==
  [finish(s) EXCEPT !.prevShow = toShow, !.prevHide = toHide(s, old), !.oldPanel = old,
                    !.running = TRUE, !.shown = @ \cup OnPage(s, toShow)]

BegunFacts(s, n, old, t) ==
  /\ t \in AccordionRecords
  /\ SameAccordion(s, t)
  /\ t.active = s.active /\ t.index = s.index
  /\ t.prevShow = n /\ t.prevHide = toHide(s, old) /\ t.oldPanel = old
  /\ t.running = TRUE
  /\ t.shown = (s.shown \ hidden(s)) \cup OnPage(s, n)
  /\ t.marked = s.marked \ (IF s.running THEN {s.oldPanel} ELSE {})

LEMMA BegunIs ==
  ASSUME NEW s \in AccordionRecords, NEW n \in 0..HeaderCount, NEW old \in 0..HeaderCount
  PROVE  BegunFacts(s, n, old, begunToggle(s, n, old))
<1> DEFINE t == begunToggle(s, n, old)
<1>1. toHide(s, old) \in 0..HeaderCount
  BY DEF toHide, AccordionRecords
<1>2. OnPage(s, n) \subseteq AllHeaders
  BY DEF OnPage, AccordionRecords
<1> DEFINE f == finish(s)
           hide == toHide(s, old)
           page == OnPage(s, n)
<1>3. t = [f EXCEPT !.prevShow = n, !.prevHide = hide, !.oldPanel = old,
                    !.running = TRUE, !.shown = @ \cup page]
  BY DEF begunToggle
<1>4. f \in AccordionRecords
  BY FinishIs
<1>5. hide \in 0..HeaderCount /\ page \subseteq AllHeaders
  BY <1>1, <1>2
<1>6. /\ SameAccordion(s, f)
      /\ f.active = s.active /\ f.index = s.index
      /\ f.shown = s.shown \ hidden(s)
      /\ f.marked = s.marked \ (IF s.running THEN {s.oldPanel} ELSE {})
  BY FinishIs DEF hidden
<1> HIDE DEF f, hide, page, t
<1>7. t \in AccordionRecords
  BY <1>3, <1>4, <1>5 DEF AccordionRecords
<1>8. /\ t.prevShow = n /\ t.prevHide = hide /\ t.oldPanel = old /\ t.running = TRUE
      /\ t.shown = f.shown \cup page
  BY <1>3, <1>4 DEF AccordionRecords
<1>9. SameAccordion(f, t) /\ t.active = f.active /\ t.index = f.index /\ t.marked = f.marked
  BY <1>3, <1>4 DEF AccordionRecords, SameAccordion
<1>10. SameAccordion(s, t)
  BY <1>6, <1>9 DEF SameAccordion
<1>11. t.shown = (s.shown \ hidden(s)) \cup page
  BY <1>6, <1>8
<1>12. t.active = s.active /\ t.index = s.index /\ t.marked = s.marked \ (IF s.running THEN {s.oldPanel} ELSE {})
  BY <1>6, <1>9
<1>13. t.prevShow = n /\ t.prevHide = toHide(s, old) /\ t.oldPanel = old /\ t.running = TRUE
  BY <1>8 DEF hide
<1>14. t.shown = (s.shown \ hidden(s)) \cup OnPage(s, n)
  BY <1>11 DEF page
<1>15. BegunFacts(s, n, old, t)
  BY <1>7, <1>10, <1>12, <1>13, <1>14 DEF BegunFacts
<1> QED BY <1>15 DEF t

ToggleFacts(s, n, old, t) ==
  /\ t \in AccordionRecords
  /\ SameAccordion(s, t)
  /\ t.active = s.active /\ t.index = s.index
  /\ t.prevShow = n /\ t.prevHide = toHide(s, old) /\ t.oldPanel = old
  /\ t.running = s.animate
  /\ t.shown = ((s.shown \ hidden(s)) \cup OnPage(s, n)) \ (IF s.animate THEN {} ELSE {toHide(s, old)})
  /\ t.marked = (s.marked \ (IF s.running THEN {s.oldPanel} ELSE {})) \ (IF s.animate THEN {} ELSE {old})

LEMMA ToggleIs ==
  ASSUME NEW s \in AccordionRecords, NEW n \in 0..HeaderCount, NEW old \in 0..HeaderCount
  PROVE  ToggleFacts(s, n, old, accordionToggle(s, n, old))
<1> DEFINE b == begunToggle(s, n, old)
           t == accordionToggle(s, n, old)
<1>1. t = IF s.animate THEN b ELSE finish(b)
  BY DEF accordionToggle, begunToggle, toHide
<1>0. BegunFacts(s, n, old, b)
  BY BegunIs
<1>2. /\ b \in AccordionRecords
      /\ SameAccordion(s, b)
      /\ b.active = s.active /\ b.index = s.index
      /\ b.prevShow = n /\ b.prevHide = toHide(s, old) /\ b.oldPanel = old
      /\ b.running = TRUE
      /\ b.shown = (s.shown \ hidden(s)) \cup OnPage(s, n)
      /\ b.marked = s.marked \ (IF s.running THEN {s.oldPanel} ELSE {})
  BY <1>0 DEF BegunFacts
<1> HIDE DEF b, t
<1>3. ASSUME s.animate PROVE ToggleFacts(s, n, old, t)
  <2>1. t = b
    BY <1>1, <1>3
  <2>2. s.animate = TRUE
    BY <1>3 DEF AccordionRecords
  <2>3. b.shown = b.shown \ {} /\ b.marked = b.marked \ {}
    OBVIOUS
  <2>4. /\ t.running = s.animate
        /\ t.shown = ((s.shown \ hidden(s)) \cup OnPage(s, n)) \ (IF s.animate THEN {} ELSE {toHide(s, old)})
        /\ t.marked = (s.marked \ (IF s.running THEN {s.oldPanel} ELSE {})) \ (IF s.animate THEN {} ELSE {old})
    BY <1>2, <1>3, <2>1, <2>2, <2>3
  <2> QED BY <1>2, <2>1, <2>4 DEF ToggleFacts
<1>4. ASSUME ~s.animate PROVE ToggleFacts(s, n, old, t)
  <2>1. t = finish(b)
    BY <1>1, <1>4
  <2>2. /\ t \in AccordionRecords
        /\ SameAccordion(b, t)
        /\ t.active = b.active /\ t.index = b.index
        /\ t.prevShow = b.prevShow /\ t.prevHide = b.prevHide /\ t.oldPanel = b.oldPanel
        /\ t.running = FALSE
        /\ t.shown = b.shown \ {b.prevHide}
        /\ t.marked = b.marked \ {b.oldPanel}
    BY <1>2, <2>1, FinishIs
  <2>3. SameAccordion(s, t)
    BY <1>2, <2>2 DEF SameAccordion
  <2>4. s.animate = FALSE
    BY <1>4 DEF AccordionRecords
  <2> QED BY <1>2, <2>2, <2>3, <2>4 DEF ToggleFacts
<1>5. ToggleFacts(s, n, old, t)
  BY <1>3, <1>4
<1> QED BY <1>5 DEF t

headerAfter(s, h) == IF h = s.active THEN NoHeader ELSE h
chosenHeader(s, h) ==
  [s EXCEPT !.index = IF h = s.active THEN NoHeader ELSE IndexOf(s, h), !.active = headerAfter(s, h),
            !.refused = FALSE]
allowed(s, h, allow) == ~(h = s.active /\ ~s.collapsible) /\ allow

(* What a click on header h, or on the active one, does if it is allowed.  *)
ClickFacts(s, h, t) ==
  /\ t \in AccordionRecords
  /\ SameAccordion(s, t)
  /\ t.active = headerAfter(s, h) /\ t.index = (IF h = s.active THEN NoHeader ELSE IndexOf(s, h))
  /\ t.prevShow = headerAfter(s, h) /\ t.prevHide = toHide(s, s.active) /\ t.oldPanel = s.active
  /\ t.running = s.animate
  /\ t.shown = ((s.shown \ hidden(s)) \cup OnPage(s, headerAfter(s, h)))
                 \ (IF s.animate THEN {} ELSE {toHide(s, s.active)})
  /\ t.marked = ((s.marked \ (IF s.running THEN {s.oldPanel} ELSE {}))
                  \ (IF s.animate THEN {} ELSE {s.active})) \cup OnPage(s, headerAfter(s, h))

LEMMA ClickIs ==
  ASSUME NEW s, AccordionTyped(s), NEW h \in 0..HeaderCount, ~(h = s.active /\ ~s.collapsible)
  PROVE  ClickFacts(s, h, click(s, h, TRUE))
<1> DEFINE c == chosenHeader(s, h)
           n == headerAfter(s, h)
           t == click(s, h, TRUE)
           u == accordionToggle(c, n, s.active)
<1>1. s \in AccordionRecords /\ s.active \in 0..HeaderCount /\ n \in 0..HeaderCount
  <2>1. NoHeader \in 0..HeaderCount
    BY AccordionAssumption DEF NoHeader
  <2> QED BY <2>1 DEF AccordionTyped, AccordionRecords, headerAfter
<1>2. IndexOf(s, h) \in 0..HeaderCount
  <2>1. s.headers \in Seq(AllHeaders) /\ Len(s.headers) <= HeaderCount
    BY DEF AccordionTyped, AccordionRecords
  <2>2. DOMAIN s.headers = 1..Len(s.headers) /\ Len(s.headers) \in Nat
    BY <2>1, LenProperties
  <2>3. CASE h \in Range(s.headers)
    <3>1. \E i \in DOMAIN s.headers : s.headers[i] = h
      BY <2>3 DEF Range
    <3>2. IndexOf(s, h) \in DOMAIN s.headers
      BY <2>3, <3>1 DEF IndexOf
    <3> QED BY <2>1, <2>2, <3>2, AccordionAssumption
  <2>4. CASE h \notin Range(s.headers)
    BY <2>4, AccordionAssumption DEF IndexOf, NoHeader
  <2> QED BY <2>3, <2>4
<1>3. (IF h = s.active THEN NoHeader ELSE IndexOf(s, h)) \in 0..HeaderCount
  <2>1. NoHeader \in 0..HeaderCount
    BY AccordionAssumption DEF NoHeader
  <2> QED BY <1>2, <2>1
<1> DEFINE i == IF h = s.active THEN NoHeader ELSE IndexOf(s, h)
<1>4. c = [s EXCEPT !.index = i, !.active = n, !.refused = FALSE]
  BY DEF chosenHeader
<1>5. t = [u EXCEPT !.marked = IF h = s.active THEN @ ELSE @ \cup OnPage(s, h)]
  BY DEF click, chosenHeader, headerAfter
<1>6. i \in 0..HeaderCount /\ n \in 0..HeaderCount /\ s.active \in 0..HeaderCount
  BY <1>1, <1>3
<1>7. OnPage(s, n) = (IF h = s.active THEN {} ELSE OnPage(s, h)) /\ OnPage(s, n) \subseteq AllHeaders
  BY <1>1 DEF OnPage, headerAfter, AccordionRecords, NoHeader, AllHeaders
<1> HIDE DEF i, n, c
<1>8. c \in AccordionRecords
  BY <1>1, <1>4, <1>6 DEF AccordionRecords
<1>9. c.index = i /\ c.active = n
  BY <1>1, <1>4 DEF AccordionRecords
<1>10. /\ SameAccordion(s, c)
       /\ c.prevShow = s.prevShow /\ c.prevHide = s.prevHide /\ c.oldPanel = s.oldPanel
       /\ c.running = s.running /\ c.shown = s.shown /\ c.marked = s.marked
  BY <1>1, <1>4 DEF AccordionRecords, SameAccordion
<1>11. OnPage(c, n) = OnPage(s, n) /\ toHide(c, s.active) = toHide(s, s.active) /\ hidden(c) = hidden(s)
       /\ c.animate = s.animate
  BY <1>10 DEF OnPage, toHide, hidden, SameAccordion
<1>20. ToggleFacts(c, n, s.active, u)
  BY <1>6, <1>8, ToggleIs
<1>12. /\ u \in AccordionRecords
       /\ SameAccordion(c, u)
       /\ u.active = c.active /\ u.index = c.index
       /\ u.prevShow = n /\ u.prevHide = toHide(c, s.active) /\ u.oldPanel = s.active
       /\ u.running = c.animate
       /\ u.shown = ((c.shown \ hidden(c)) \cup OnPage(c, n)) \ (IF c.animate THEN {} ELSE {toHide(c, s.active)})
       /\ u.marked = (c.marked \ (IF c.running THEN {c.oldPanel} ELSE {})) \ (IF c.animate THEN {} ELSE {s.active})
  BY <1>20 DEF ToggleFacts
<1> HIDE DEF u, t
<1>13. t = [u EXCEPT !.marked = @ \cup OnPage(s, n)]
  <2>1. u.marked \cup {} = u.marked
    OBVIOUS
  <2> QED BY <1>5, <1>7, <2>1
<1>14. t \in AccordionRecords /\ t.marked = u.marked \cup OnPage(s, n)
  BY <1>7, <1>12, <1>13 DEF AccordionRecords
<1>15. /\ SameAccordion(u, t)
       /\ t.active = u.active /\ t.index = u.index
       /\ t.prevShow = u.prevShow /\ t.prevHide = u.prevHide /\ t.oldPanel = u.oldPanel
       /\ t.running = u.running /\ t.shown = u.shown
  BY <1>12, <1>13 DEF AccordionRecords, SameAccordion
<1>16. SameAccordion(s, t)
  BY <1>10, <1>12, <1>15 DEF SameAccordion
<1>17. /\ t.active = n /\ t.index = i /\ t.prevShow = n /\ t.prevHide = toHide(s, s.active)
       /\ t.oldPanel = s.active /\ t.running = s.animate
  BY <1>9, <1>11, <1>12, <1>15
<1>18. t.shown = ((s.shown \ hidden(s)) \cup OnPage(s, n)) \ (IF s.animate THEN {} ELSE {toHide(s, s.active)})
  BY <1>10, <1>11, <1>12, <1>15
<1>19. t.marked = ((s.marked \ (IF s.running THEN {s.oldPanel} ELSE {}))
                    \ (IF s.animate THEN {} ELSE {s.active})) \cup OnPage(s, n)
  BY <1>10, <1>11, <1>12, <1>14
<1>21. ClickFacts(s, h, t)
  BY <1>14, <1>16, <1>17, <1>18, <1>19 DEF i, n, ClickFacts
<1> QED BY <1>21 DEF t

(* A click that is refused leaves all as it was.                            *)
RefuseFacts(s, t) ==
  /\ AccordionTyped(t) /\ SameAccordion(s, t)
  /\ t.active = s.active /\ t.index = s.index /\ t.prevShow = s.prevShow /\ t.prevHide = s.prevHide
  /\ t.oldPanel = s.oldPanel /\ t.running = s.running /\ t.shown = s.shown /\ t.marked = s.marked
  /\ t.refused = TRUE

LEMMA RefuseIs ==
  ASSUME NEW s, AccordionTyped(s), NEW h, ~(h = s.active /\ ~s.collapsible)
  PROVE  RefuseFacts(s, click(s, h, FALSE))
<1> DEFINE t == click(s, h, FALSE)
<1>1. t = [s EXCEPT !.refused = TRUE]
  BY DEF click
<1>2. s \in AccordionRecords
  BY DEF AccordionTyped
<1> HIDE DEF t
<1>3. t \in AccordionRecords
  BY <1>1, <1>2 DEF AccordionRecords
<1>4. /\ SameAccordion(s, t)
      /\ t.active = s.active /\ t.index = s.index /\ t.prevShow = s.prevShow /\ t.prevHide = s.prevHide
      /\ t.oldPanel = s.oldPanel /\ t.running = s.running /\ t.shown = s.shown /\ t.marked = s.marked
      /\ t.refused = TRUE
  BY <1>1, <1>2 DEF AccordionRecords, SameAccordion
<1>5. AccordionTyped(t)
  BY <1>3, <1>4 DEF AccordionTyped, SameAccordion
<1>6. RefuseFacts(s, t)
  BY <1>4, <1>5 DEF RefuseFacts
<1> QED BY <1>6 DEF t

(* What was followed goes on being followed. *)
LEMMA RefuseFollows ==
  ASSUME NEW s, NEW t, RefuseFacts(s, t)
  PROVE  /\ s.index = IndexOf(s, s.active) /\ s.active \in Range(s.headers) \cup {NoHeader} => ActiveFollows(t)
         /\ MarksFollow(s) => MarksFollow(t)
         /\ ShownFollows(s) => ShownFollows(t)
<1>1. /\ t.there = s.there /\ t.headers = s.headers /\ t.active = s.active /\ t.index = s.index
      /\ t.prevShow = s.prevShow /\ t.prevHide = s.prevHide /\ t.oldPanel = s.oldPanel
      /\ t.running = s.running /\ t.shown = s.shown /\ t.marked = s.marked /\ t.refused
  BY DEF RefuseFacts, SameAccordion
<1>2. IndexOf(t, t.active) = IndexOf(s, s.active) /\ OnPage(t, t.active) = OnPage(s, s.active)
  BY <1>1 DEF IndexOf, OnPage
<1>3. s.index = IndexOf(s, s.active) /\ s.active \in Range(s.headers) \cup {NoHeader} => ActiveFollows(t)
  BY <1>1, <1>2 DEF ActiveFollows
<1>4. MarksFollow(s) => MarksFollow(t)
  BY <1>1 DEF MarksFollow
<1>5. ShownFollows(s) => ShownFollows(t)
  BY <1>1, <1>2 DEF ShownFollows
<1> QED BY <1>3, <1>4, <1>5

(* A click keeps the types, and the marks of a panel that was followed.    *)
LEMMA ClickTyped ==
  ASSUME NEW s, AccordionTyped(s), NEW h \in 0..HeaderCount, NEW allow \in BOOLEAN
  PROVE  AccordionTyped(click(s, h, allow)) /\ SameAccordion(s, click(s, h, allow))
<1>1. CASE h = s.active /\ ~s.collapsible
  BY <1>1 DEF click, SameAccordion
<1>2. CASE allowed(s, h, allow)
  <2> DEFINE t == click(s, h, allow)
             n == headerAfter(s, h)
  <2>1. /\ t \in AccordionRecords
        /\ SameAccordion(s, t)
        /\ t.shown = ((s.shown \ hidden(s)) \cup OnPage(s, n)) \ (IF s.animate THEN {} ELSE {toHide(s, s.active)})
        /\ t.marked = ((s.marked \ (IF s.running THEN {s.oldPanel} ELSE {}))
                        \ (IF s.animate THEN {} ELSE {s.active})) \cup OnPage(s, n)
    <3>1. ClickFacts(s, h, click(s, h, TRUE))
      BY <1>2, ClickIs DEF allowed
    <3>2. t = click(s, h, TRUE)
      BY <1>2 DEF allowed
    <3> HIDE DEF t, n
    <3>3. ClickFacts(s, h, t)
      BY <3>1, <3>2
    <3> QED BY <3>3 DEF ClickFacts, n
  <2> HIDE DEF t, n
  <2>2. OnPage(s, n) \subseteq s.there /\ s.shown \subseteq s.there /\ s.marked \subseteq s.there
    BY DEF OnPage, AccordionTyped
  <2>3. t.shown \cup t.marked \subseteq s.there
    BY <2>1, <2>2
  <2> QED BY <2>1, <2>3 DEF AccordionTyped, SameAccordion, t
<1>3. CASE ~(h = s.active /\ ~s.collapsible) /\ ~allow
  BY <1>3, RefuseIs DEF RefuseFacts
<1> QED BY <1>1, <1>2, <1>3 DEF allowed

LEMMA HeadersAre ==
  ASSUME NEW s, AccordionTyped(s)
  PROVE  /\ Range(s.headers) \subseteq AllHeaders /\ NoHeader \notin Range(s.headers)
         /\ NoHeader \notin s.there /\ NoHeader \notin AllHeaders
         /\ DOMAIN s.headers = 1..Len(s.headers) /\ Len(s.headers) \in Nat /\ Len(s.headers) <= HeaderCount
         /\ s.headers = <<>> <=> Len(s.headers) = 0
<1>1. s.headers \in Seq(AllHeaders) /\ Len(s.headers) <= HeaderCount /\ s.there \subseteq AllHeaders
  BY DEF AccordionTyped, AccordionRecords
<1>2. DOMAIN s.headers = 1..Len(s.headers) /\ Len(s.headers) \in Nat
  BY <1>1, LenProperties
<1>3. \A i \in 1..Len(s.headers) : s.headers[i] \in AllHeaders
  BY <1>1, ElementOfSeq
<1>4. Range(s.headers) \subseteq AllHeaders
  BY <1>2, <1>3 DEF Range
<1>5. NoHeader \notin AllHeaders
  BY AccordionAssumption DEF NoHeader, AllHeaders
<1>6. s.headers = <<>> <=> Len(s.headers) = 0
  BY <1>1, EmptySeq
<1> QED BY <1>1, <1>2, <1>4, <1>5, <1>6

LEMMA HeaderAtIs ==
  ASSUME NEW s, AccordionTyped(s), NEW i
  PROVE  /\ HeaderAt(s, i) \in Range(s.headers) \cup {NoHeader}
         /\ HeaderAt(s, i) \in 0..HeaderCount
         /\ HeaderAt(s, i) = NoHeader <=> i \notin DOMAIN s.headers
<1>1. Range(s.headers) \subseteq AllHeaders /\ NoHeader \notin Range(s.headers)
  BY HeadersAre
<1>2. i \in DOMAIN s.headers => HeaderAt(s, i) \in Range(s.headers)
  BY DEF HeaderAt, Range
<1>3. i \notin DOMAIN s.headers => HeaderAt(s, i) = NoHeader
  BY DEF HeaderAt
<1>4. AllHeaders \subseteq 0..HeaderCount /\ NoHeader \in 0..HeaderCount
  BY AccordionAssumption DEF AllHeaders, NoHeader
<1> QED BY <1>1, <1>2, <1>3, <1>4

LEMMA IndexOfIs ==
  ASSUME NEW s, AccordionTyped(s), NEW h
  PROVE  /\ h \in Range(s.headers) => IndexOf(s, h) \in DOMAIN s.headers /\ HeaderAt(s, IndexOf(s, h)) = h
         /\ h \notin Range(s.headers) => IndexOf(s, h) = NoHeader
         /\ IndexOf(s, h) \in 0..HeaderCount
         /\ IndexOf(s, h) = NoHeader <=> h \notin Range(s.headers)
<1>1. DOMAIN s.headers = 1..Len(s.headers) /\ Len(s.headers) \in Nat /\ Len(s.headers) <= HeaderCount
  BY HeadersAre
<1>2. ASSUME h \in Range(s.headers)
      PROVE  IndexOf(s, h) \in DOMAIN s.headers /\ HeaderAt(s, IndexOf(s, h)) = h
  <2>1. \E i \in DOMAIN s.headers : s.headers[i] = h
    BY <1>2 DEF Range
  <2> QED BY <1>2, <2>1 DEF IndexOf, HeaderAt
<1>3. h \notin Range(s.headers) => IndexOf(s, h) = NoHeader
  BY DEF IndexOf
<1>4. \A i \in 1..Len(s.headers) : i \in 0..HeaderCount /\ i # NoHeader
  BY <1>1, AccordionAssumption DEF NoHeader
<1>5. NoHeader \in 0..HeaderCount
  BY AccordionAssumption DEF NoHeader
<1> QED BY <1>1, <1>2, <1>3, <1>4, <1>5

(* A click leaves a header active whose panel is shown, beside one at most *)
(* that an animation hides, whatever animation there was before.           *)
LEMMA ClickFollows ==
  ASSUME NEW s, AccordionTyped(s), MarksFollow(s),
         NEW h \in Range(s.headers) \cup {s.active}, h # NoHeader,
         ~(h = s.active /\ ~s.collapsible)
  PROVE  /\ ActiveFollows(click(s, h, TRUE)) /\ MarksFollow(click(s, h, TRUE))
         /\ s.shown \cap Range(s.headers) \subseteq {s.active} \cup hidden(s) => ShownFollows(click(s, h, TRUE))
<1> DEFINE t == click(s, h, TRUE)
           n == headerAfter(s, h)
           hide == toHide(s, s.active)
<1>1. h \in 0..HeaderCount
  BY HeadersAre, AccordionAssumption DEF AccordionTyped, AccordionRecords, AllHeaders
<1>2. ClickFacts(s, h, t)
  BY <1>1, ClickIs
<1>3. SameAccordion(s, t) /\ AccordionTyped(t)
  BY <1>1, ClickTyped DEF SameAccordion
<1>4. NoHeader \notin Range(s.headers) /\ NoHeader \notin s.there
  BY HeadersAre
<1>5. n = NoHeader \/ (n = h /\ n \in Range(s.headers) /\ n # s.active)
  BY DEF headerAfter
<1>6. n = NoHeader => s.collapsible
  BY DEF headerAfter
<1>7. s.active # NoHeader => hide = s.active
  BY DEF toHide, MarksFollow
<1>8. n # NoHeader => n # hide /\ n # s.active
  BY <1>4, <1>5 DEF toHide, MarksFollow
<1>9. s.marked \ (IF s.running THEN {s.oldPanel} ELSE {}) \subseteq {s.active}
  BY DEF MarksFollow
<1>10. /\ t.there = s.there /\ t.headers = s.headers /\ t.collapsible = s.collapsible
       /\ t.active = n /\ t.index = (IF h = s.active THEN NoHeader ELSE IndexOf(s, h))
       /\ t.prevShow = n /\ t.prevHide = hide /\ t.oldPanel = s.active
       /\ t.running = s.animate
       /\ t.shown = ((s.shown \ hidden(s)) \cup OnPage(s, n)) \ (IF s.animate THEN {} ELSE {hide})
       /\ t.marked = ((s.marked \ (IF s.running THEN {s.oldPanel} ELSE {}))
                       \ (IF s.animate THEN {} ELSE {s.active})) \cup OnPage(s, n)
  BY <1>2, <1>3 DEF ClickFacts, SameAccordion
<1>11. IndexOf(t, n) = (IF h = s.active THEN NoHeader ELSE IndexOf(s, h))
  <2>1. IndexOf(t, n) = IndexOf(s, n)
    <3> HIDE DEF t, n, hide
    <3> QED BY <1>10 DEF IndexOf
  <2>2. h = s.active => n = NoHeader /\ IndexOf(s, n) = NoHeader
    BY <1>4 DEF headerAfter, IndexOf
  <2>3. h # s.active => n = h
    BY DEF headerAfter
  <2> QED BY <2>1, <2>2, <2>3
<1>12. OnPage(s, n) \subseteq {n} /\ OnPage(t, n) = OnPage(s, n) /\ (n = NoHeader => OnPage(s, n) = {})
  <2> HIDE DEF t, n, hide
  <2> QED BY <1>4, <1>10 DEF OnPage
<1> HIDE DEF t, n, hide
<1>13. ActiveFollows(t)
  BY <1>5, <1>6, <1>10, <1>11 DEF ActiveFollows
<1>14. MarksFollow(t)
  <2>1. t.prevShow \in {t.active, NoHeader}
    BY <1>10
  <2>2. t.marked \subseteq {t.active} \cup (IF t.running THEN {t.oldPanel} ELSE {})
    <3>1. t.marked \subseteq {n, s.active}
      BY <1>9, <1>10, <1>12
    <3>2. ~s.animate => t.marked \subseteq {n}
      BY <1>9, <1>10, <1>12
    <3> QED BY <1>10, <3>1, <3>2
  <2>3. t.running /\ t.active # NoHeader => t.active \notin {t.prevHide, t.oldPanel}
    BY <1>8, <1>10
  <2> QED BY <2>1, <2>2, <2>3 DEF MarksFollow
<1>15. ASSUME s.shown \cap Range(s.headers) \subseteq {s.active} \cup hidden(s)
       PROVE  ShownFollows(t)
  <2>1. OnPage(t, t.active) \subseteq t.shown \cap t.marked
    BY <1>8, <1>10, <1>12
  <2>2. (s.shown \ hidden(s)) \cap Range(s.headers) \subseteq {s.active} \ {NoHeader}
    BY <1>4, <1>15
  <2>3. t.shown \cap Range(t.headers) \subseteq ({s.active} \ {NoHeader}) \cup {n}
    BY <1>10, <1>12, <2>2
  <2>4. ~s.animate => hide \notin t.shown
    BY <1>10
  <2>5. t.shown \cap Range(t.headers) \subseteq {t.active} \cup (IF t.running THEN {t.prevHide} ELSE {})
    <3>1. CASE s.animate
      BY <1>7, <1>10, <2>3, <3>1
    <3>2. CASE ~s.animate
      BY <1>7, <1>10, <2>3, <2>4, <3>2
    <3> QED BY <3>1, <3>2
  <2> QED BY <2>1, <2>5 DEF ShownFollows
<1> QED BY <1>13, <1>14, <1>15 DEF t

LEMMA ActivateHeaderTyped ==
  ASSUME NEW s, AccordionTyped(s), NEW i, NEW allow \in BOOLEAN
  PROVE  AccordionTyped(activateHeader(s, i, allow)) /\ SameAccordion(s, activateHeader(s, i, allow))
<1> DEFINE h == HeaderAt(s, i)
           k == IF h = NoHeader THEN s.active ELSE h
<1>1. h \in 0..HeaderCount /\ s.active \in 0..HeaderCount
  BY HeaderAtIs DEF AccordionTyped, AccordionRecords
<1>2. k \in 0..HeaderCount
  BY <1>1
<1>3. activateHeader(s, i, allow) = IF h = s.active THEN s ELSE click(s, k, allow)
  BY DEF activateHeader
<1>4. SameAccordion(s, s)
  BY DEF SameAccordion
<1> HIDE DEF h, k
<1>5. AccordionTyped(click(s, k, allow)) /\ SameAccordion(s, click(s, k, allow))
  BY <1>2, ClickTyped
<1> QED BY <1>3, <1>4, <1>5

(* A header is activated, or the header at that index is the active one, or *)
(* there is none and the accordion may not collapse, or it is refused.     *)
LEMMA ActivateHeaderFollows ==
  ASSUME NEW s, AccordionTyped(s), MarksFollow(s), NEW i, NEW allow \in BOOLEAN
  PROVE  \/ /\ activateHeader(s, i, allow) = s
            /\ HeaderAt(s, i) = s.active \/ (HeaderAt(s, i) = NoHeader /\ ~s.collapsible)
         \/ RefuseFacts(s, activateHeader(s, i, allow))
         \/ /\ ActiveFollows(activateHeader(s, i, allow)) /\ MarksFollow(activateHeader(s, i, allow))
            /\ s.shown \cap Range(s.headers) \subseteq {s.active} \cup hidden(s)
                 => ShownFollows(activateHeader(s, i, allow))
<1> DEFINE h == HeaderAt(s, i)
           k == IF h = NoHeader THEN s.active ELSE h
<1>1. h \in Range(s.headers) \cup {NoHeader}
  BY HeaderAtIs
<1>2. activateHeader(s, i, allow) = IF h = s.active THEN s ELSE click(s, k, allow)
  BY DEF activateHeader
<1>3. CASE h = s.active
  BY <1>2, <1>3
<1>4. CASE h # s.active /\ k = s.active /\ ~s.collapsible
  <2>1. click(s, k, allow) = s
    BY <1>4 DEF click
  <2>2. h = NoHeader
    BY <1>4
  <2> QED BY <1>2, <1>4, <2>1, <2>2
<1>5. CASE h # s.active /\ ~(k = s.active /\ ~s.collapsible) /\ allow
  <2>1. k \in Range(s.headers) \cup {s.active} /\ k # NoHeader
    BY <1>1, <1>5
  <2>0. activateHeader(s, i, allow) = click(s, k, TRUE)
    BY <1>2, <1>5
  <2> HIDE DEF k
  <2>2. /\ ActiveFollows(click(s, k, TRUE)) /\ MarksFollow(click(s, k, TRUE))
        /\ s.shown \cap Range(s.headers) \subseteq {s.active} \cup hidden(s) => ShownFollows(click(s, k, TRUE))
    BY <1>5, <2>1, ClickFollows
  <2> QED BY <2>0, <2>2
<1>6. CASE h # s.active /\ ~(k = s.active /\ ~s.collapsible) /\ ~allow
  <2>1. activateHeader(s, i, allow) = click(s, k, FALSE)
    BY <1>2, <1>6
  <2> HIDE DEF k
  <2>2. RefuseFacts(s, click(s, k, FALSE))
    BY <1>6, RefuseIs
  <2> QED BY <2>1, <2>2
<1> QED BY <1>3, <1>4, <1>5, <1>6

LEMMA InOrderIs ==
  ASSUME NEW there \in SUBSET AllHeaders
  PROVE  /\ InOrder(there) \in Seq(AllHeaders) /\ Len(InOrder(there)) <= HeaderCount
         /\ Range(InOrder(there)) = there
<1>1. IsFiniteSet(AllHeaders) /\ Cardinality(AllHeaders) = HeaderCount
  BY AccordionAssumption, FS_Interval DEF AllHeaders
<1>2. IsFiniteSet(there) /\ Cardinality(there) <= HeaderCount
  BY <1>1, FS_Subset
<1>3. there \subseteq Int
  BY AccordionAssumption DEF AllHeaders
<1> DEFINE l == InOrder(there)
<1>4. l = [i \in 1..Cardinality(there) |-> CHOOSE e \in there : Cardinality({d \in there : d < e}) = i - 1]
  BY DEF InOrder
<1>5. l \in Seq(there) /\ Len(l) = Cardinality(there) /\ Range(l) = there
  <2> HIDE DEF l
  <2> QED BY <1>2, <1>3, <1>4, RankedIs
<1>6. l \in Seq(AllHeaders)
  BY <1>5
<1> QED BY <1>2, <1>5, <1>6

-------------------------------------------------------------------------------

(* The headers are read anew. *)
LEMMA ProcessIs ==
  ASSUME NEW s, AccordionTyped(s), NEW r, r = processPanels(s)
  PROVE  /\ AccordionTyped(r)
         /\ Range(r.headers) = r.there /\ r.there = s.there
         /\ r.active = s.active /\ r.index = s.index /\ r.collapsible = s.collapsible /\ r.stuck = s.stuck
         /\ r.refused = s.refused
         /\ r.marked = s.marked
         /\ MarksFollow(s) => MarksFollow(r)
<1>1. s \in AccordionRecords /\ s.there \in SUBSET AllHeaders
  BY DEF AccordionTyped, AccordionRecords
<1> DEFINE l == InOrder(s.there)
<1>2. l \in Seq(AllHeaders) /\ Len(l) <= HeaderCount /\ Range(l) = s.there
  BY <1>1, InOrderIs
<1>3. r = [s EXCEPT !.headers = l, !.shown = @ \cap s.marked]
  BY DEF processPanels
<1> HIDE DEF l
<1>4. r \in AccordionRecords
  BY <1>1, <1>2, <1>3 DEF AccordionRecords
<1>5. r.headers = l /\ r.shown = s.shown \cap s.marked
  BY <1>1, <1>3 DEF AccordionRecords
<1>6. /\ r.there = s.there /\ r.active = s.active /\ r.index = s.index /\ r.prevShow = s.prevShow
      /\ r.prevHide = s.prevHide /\ r.running = s.running /\ r.oldPanel = s.oldPanel /\ r.marked = s.marked
      /\ r.collapsible = s.collapsible /\ r.stuck = s.stuck
      /\ r.refused = s.refused
  BY <1>1, <1>3 DEF AccordionRecords
<1>7. AccordionTyped(r)
  BY <1>2, <1>4, <1>5, <1>6 DEF AccordionTyped
<1>8. MarksFollow(s) => MarksFollow(r)
  BY <1>2, <1>5, <1>6 DEF MarksFollow
<1> QED BY <1>2, <1>5, <1>6, <1>7, <1>8

(* The settled list is drawn: the panel of the active header alone.        *)
LEMMA RedrawTyped ==
  ASSUME NEW s, AccordionTyped(s)
  PROVE  /\ AccordionTyped(redraw(s)) /\ SameAccordion(s, redraw(s))
         /\ redraw(s).active = HeaderAt(s, s.index) /\ redraw(s).index = s.index
         /\ redraw(s).refused = s.refused
         /\ redraw(s).prevShow = s.prevShow /\ redraw(s).prevHide = s.prevHide
         /\ redraw(s).running = s.running /\ redraw(s).oldPanel = s.oldPanel
         /\ redraw(s).marked = s.marked \cup OnPage(s, HeaderAt(s, s.index))
         /\ redraw(s).shown = OnPage(s, HeaderAt(s, s.index))
<1> DEFINE h == HeaderAt(s, s.index)
           page == OnPage(s, h)
           t == redraw(s)
<1>1. h \in 0..HeaderCount
  BY HeaderAtIs
<1>2. page \subseteq s.there /\ s.there \subseteq AllHeaders /\ s \in AccordionRecords
  BY DEF OnPage, AccordionTyped, AccordionRecords
<1>3. t = [s EXCEPT !.active = h, !.marked = @ \cup page, !.shown = page]
  BY DEF redraw
<1> HIDE DEF h, page, t
<1>4. t \in AccordionRecords
  BY <1>1, <1>2, <1>3 DEF AccordionRecords
<1>5. t.active = h /\ t.marked = s.marked \cup page /\ t.shown = page
  BY <1>2, <1>3 DEF AccordionRecords
<1>6. /\ SameAccordion(s, t) /\ t.index = s.index /\ t.refused = s.refused
      /\ t.prevShow = s.prevShow /\ t.prevHide = s.prevHide /\ t.running = s.running /\ t.oldPanel = s.oldPanel
  BY <1>2, <1>3 DEF AccordionRecords, SameAccordion
<1>7. AccordionTyped(t)
  BY <1>2, <1>4, <1>5, <1>6 DEF AccordionTyped, SameAccordion
<1> QED BY <1>5, <1>6, <1>7 DEF t, h, page

LEMMA RedrawFollows ==
  ASSUME NEW s, AccordionTyped(s), ActiveFollows(s), MarksFollow(s)
  PROVE  AccordionFollows(redraw(s))
<1> DEFINE t == redraw(s)
<1>1. HeaderAt(s, s.index) = s.active
  <2>1. CASE s.active \in Range(s.headers)
    BY <2>1, IndexOfIs DEF ActiveFollows
  <2>2. CASE s.active = NoHeader
    <3>1. s.index = NoHeader
      BY <2>2, IndexOfIs, HeadersAre DEF ActiveFollows
    <3>2. NoHeader \notin DOMAIN s.headers
      BY HeadersAre DEF NoHeader
    <3> QED BY <2>2, <3>1, <3>2, HeaderAtIs
  <2> QED BY <2>1, <2>2 DEF ActiveFollows
<1>2. /\ t.there = s.there /\ t.headers = s.headers /\ t.collapsible = s.collapsible
      /\ t.active = s.active /\ t.index = s.index /\ t.refused = s.refused
      /\ t.prevShow = s.prevShow /\ t.prevHide = s.prevHide
      /\ t.running = s.running /\ t.oldPanel = s.oldPanel
      /\ t.marked = s.marked \cup OnPage(s, s.active)
      /\ t.shown = OnPage(s, s.active)
  BY <1>1, RedrawTyped DEF SameAccordion
<1> HIDE DEF t
<1>3. IndexOf(t, t.active) = IndexOf(s, s.active) /\ OnPage(t, t.active) = OnPage(s, s.active)
      /\ OnPage(s, s.active) \subseteq {s.active}
  BY <1>2 DEF IndexOf, OnPage
<1>4. ActiveFollows(t)
  BY <1>2, <1>3 DEF ActiveFollows
<1>5. MarksFollow(t)
  BY <1>2, <1>3 DEF MarksFollow
<1>6. ShownFollows(t)
  BY <1>2, <1>3 DEF ShownFollows
<1> QED BY <1>4, <1>5, <1>6 DEF AccordionFollows, t

LEMMA SettleTyped ==
  ASSUME NEW s, AccordionTyped(s), NEW allow \in BOOLEAN
  PROVE  AccordionTyped(settle(s, allow)) /\ SameAccordion(s, settle(s, allow))
<1>1. s \in AccordionRecords /\ NoHeader \in 0..HeaderCount
  BY AccordionAssumption DEF AccordionTyped, NoHeader
<1>2. ASSUME NEW i \in 0..HeaderCount, NEW n \in 0..HeaderCount, NEW u, u = [s EXCEPT !.index = i, !.active = n]
      PROVE  AccordionTyped(u) /\ SameAccordion(s, u)
  <2>1. u \in AccordionRecords
    BY <1>1, <1>2 DEF AccordionRecords
  <2>2. SameAccordion(s, u) /\ u.shown = s.shown /\ u.marked = s.marked
    BY <1>1, <1>2 DEF AccordionRecords, SameAccordion
  <2> QED BY <2>1, <2>2 DEF AccordionTyped, SameAccordion
<1>3. CASE (s.index = NoHeader /\ s.collapsible) \/ s.headers = <<>>
  <2>1. settle(s, allow) = [s EXCEPT !.index = NoHeader, !.active = NoHeader]
    BY <1>3 DEF settle
  <2> QED BY <1>1, <1>2, <2>1
<1>4. ASSUME NEW i, settle(s, allow) = activateHeader(s, i, allow)
      PROVE  AccordionTyped(settle(s, allow)) /\ SameAccordion(s, settle(s, allow))
  BY <1>4, ActivateHeaderTyped
<1>5. CASE settle(s, allow) = [s EXCEPT !.index = IndexOf(s, s.active)]
  <2>1. IndexOf(s, s.active) \in 0..HeaderCount
    BY IndexOfIs
  <2> DEFINE i == IndexOf(s, s.active)
             u == settle(s, allow)
  <2>2. u = [s EXCEPT !.index = i] /\ i \in 0..HeaderCount
    BY <1>5, <2>1
  <2> HIDE DEF i, u
  <2>3. u \in AccordionRecords
    BY <1>1, <2>2 DEF AccordionRecords
  <2>4. SameAccordion(s, u) /\ u.shown = s.shown /\ u.marked = s.marked
    BY <1>1, <2>2 DEF AccordionRecords, SameAccordion
  <2>5. AccordionTyped(u) /\ SameAccordion(s, u)
    BY <2>3, <2>4 DEF AccordionTyped, SameAccordion
  <2> QED BY <2>5 DEF u
<1>6. \/ (s.index = NoHeader /\ s.collapsible) \/ s.headers = <<>>
      \/ settle(s, allow) = activateHeader(s, 1, allow) \/ settle(s, allow) = activateHeader(s, s.index - 1, allow)
      \/ settle(s, allow) = [s EXCEPT !.index = IndexOf(s, s.active)]
  BY DEF settle
<1> QED BY <1>3, <1>4, <1>5, <1>6

LEMMA ActiveNone ==
  ASSUME NEW s, AccordionTyped(s), ActiveFollows(s)
  PROVE  s.index = NoHeader <=> s.active = NoHeader
BY IndexOfIs, HeadersAre DEF ActiveFollows

LEMMA SettleFollows ==
  ASSUME NEW s, AccordionTyped(s), ActiveFollows(s), MarksFollow(s),
         NEW allow \in BOOLEAN, NEW r, r = processPanels(s),
         settle(r, allow).active \in r.there \cup {NoHeader}
  PROVE  ActiveFollows(settle(r, allow)) /\ MarksFollow(settle(r, allow))
<1>1. /\ AccordionTyped(r)
      /\ Range(r.headers) = r.there /\ r.there = s.there
      /\ r.active = s.active /\ r.index = s.index /\ r.collapsible = s.collapsible /\ r.stuck = s.stuck
      /\ r.refused = s.refused
      /\ r.marked = s.marked
      /\ MarksFollow(r)
  BY ProcessIs
<1>2. r \in AccordionRecords /\ r.marked \subseteq r.there
  BY <1>1 DEF AccordionTyped
<1>3. r.index = NoHeader <=> r.active = NoHeader
  BY <1>1, ActiveNone
<1>4. r.headers = <<>> <=> r.there = {}
  <2>1. r.headers = <<>> <=> Len(r.headers) = 0
    BY <1>1, HeadersAre
  <2>2. DOMAIN r.headers = 1..Len(r.headers) /\ Len(r.headers) \in Nat
    BY <1>1, HeadersAre
  <2>3. Len(r.headers) = 0 => DOMAIN r.headers = {}
    BY <2>2
  <2>4. Len(r.headers) # 0 => 1 \in DOMAIN r.headers
    BY <2>2
  <2> QED BY <1>1, <2>1, <2>3, <2>4 DEF Range
<1>5. CASE (r.index = NoHeader /\ r.collapsible) \/ r.headers = <<>>
  <2> DEFINE u == settle(r, allow)
  <2>1. u = [r EXCEPT !.index = NoHeader, !.active = NoHeader]
    BY <1>5 DEF settle
  <2> HIDE DEF u
  <2>2. u.index = NoHeader /\ u.active = NoHeader
    BY <1>2, <2>1 DEF AccordionRecords
  <2>3. /\ u.there = r.there /\ u.headers = r.headers /\ u.collapsible = r.collapsible
        /\ u.refused = r.refused
        /\ u.prevShow = r.prevShow /\ u.prevHide = r.prevHide
        /\ u.running = r.running /\ u.oldPanel = r.oldPanel /\ u.marked = r.marked
    BY <1>2, <2>1 DEF AccordionRecords
  <2>4. NoHeader \notin Range(r.headers)
    BY <1>1, HeadersAre
  <2>5. IndexOf(u, NoHeader) = NoHeader
    BY <2>3, <2>4 DEF IndexOf
  <2>6. ActiveFollows(u)
    BY <1>5, <2>2, <2>3, <2>5 DEF ActiveFollows
  <2>7. MarksFollow(u)
    <3>1. CASE r.active = NoHeader
      BY <1>1, <2>2, <2>3, <3>1 DEF MarksFollow
    <3>2. CASE r.headers = <<>>
      <4>1. r.there = {} /\ r.marked = {} /\ Range(r.headers) = {}
        BY <1>1, <1>2, <1>4, <3>2
      <4> QED BY <2>2, <2>3, <4>1 DEF MarksFollow
    <3> QED BY <1>3, <1>5, <3>1, <3>2
  <2> QED BY <2>6, <2>7 DEF u
<1>6. ASSUME r.headers # <<>>, NEW i, settle(r, allow) = activateHeader(r, i, allow),
             (HeaderAt(r, i) # NoHeader /\ r.active = NoHeader) \/ r.active \notin r.there \cup {NoHeader}
      PROVE  ActiveFollows(settle(r, allow)) /\ MarksFollow(settle(r, allow))
  <2>1. settle(r, allow) = r => r.active \in r.there \cup {NoHeader}
    OBVIOUS
  <2>2. HeaderAt(r, i) \in r.there \cup {NoHeader}
    BY <1>1, HeaderAtIs
  <2>3. settle(r, allow) = r => HeaderAt(r, i) # r.active /\ HeaderAt(r, i) # NoHeader
    BY <1>6, <2>1, <2>2
  <2>4. ASSUME RefuseFacts(r, settle(r, allow))
        PROVE  ActiveFollows(settle(r, allow)) /\ MarksFollow(settle(r, allow))
    <3> DEFINE u == settle(r, allow)
    <3>1. u.active = r.active
      BY <2>4 DEF RefuseFacts
    <3>2. r.active = NoHeader
      BY <1>6, <3>1
    <3>3. r.index = IndexOf(r, r.active)
      BY <1>1, <1>3, <3>2, HeadersAre DEF IndexOf
    <3> QED BY <1>1, <2>4, <3>2, <3>3, RefuseFollows
  <2> QED BY <1>1, <1>6, <2>3, <2>4, ActivateHeaderFollows
<1>7. CASE r.headers # <<>> /\ r.index = NoHeader /\ ~r.collapsible
  <2>1. settle(r, allow) = activateHeader(r, 1, allow)
    BY <1>7 DEF settle
  <2>2. 1 \in DOMAIN r.headers
    BY <1>1, <1>7, HeadersAre
  <2>3. HeaderAt(r, 1) # NoHeader
    BY <1>1, <2>2, HeaderAtIs
  <2> QED BY <1>3, <1>6, <1>7, <2>1, <2>3
<1>8. CASE r.headers # <<>> /\ r.index # NoHeader /\ r.active \notin r.there \cup {NoHeader}
  <2>1. settle(r, allow) = activateHeader(r, IF r.index > 1 THEN r.index - 1 ELSE 1, allow)
    BY <1>8 DEF settle
  <2> QED BY <1>6, <1>8, <2>1
<1>9. CASE r.headers # <<>> /\ r.index # NoHeader /\ r.active \in r.there \cup {NoHeader}
  <2> DEFINE u == settle(r, allow)
             k == IndexOf(r, r.active)
  <2>1. u = [r EXCEPT !.index = k]
    BY <1>9 DEF settle
  <2> HIDE DEF u, k
  <2>2. u.index = k
    BY <1>2, <2>1 DEF AccordionRecords
  <2>3. /\ u.there = r.there /\ u.headers = r.headers /\ u.collapsible = r.collapsible
        /\ u.refused = r.refused
        /\ u.active = r.active /\ u.prevShow = r.prevShow /\ u.prevHide = r.prevHide
        /\ u.running = r.running /\ u.oldPanel = r.oldPanel /\ u.marked = r.marked
    BY <1>2, <2>1 DEF AccordionRecords
  <2>4. IndexOf(u, u.active) = k
    BY <2>3 DEF IndexOf, k
  <2>5. ActiveFollows(u)
    BY <1>1, <1>3, <1>9, <2>2, <2>3, <2>4 DEF ActiveFollows
  <2>6. MarksFollow(u)
    BY <1>1, <2>3 DEF MarksFollow
  <2> QED BY <2>5, <2>6 DEF u
<1> QED BY <1>5, <1>7, <1>8, <1>9

AccordionOK(s) == AccordionTyped(s) /\ (~s.stuck => AccordionFollows(s))

LEMMA AccordionBegins ==
  ASSUME AccordionInit
  PROVE  AccordionOK(accordion)
<1> DEFINE l == InOrder(AllHeaders)
<1>1. l \in Seq(AllHeaders) /\ Len(l) <= HeaderCount /\ Range(l) = AllHeaders
  BY InOrderIs
<1>2. PICK collapsible \in BOOLEAN, animate \in BOOLEAN :
        accordion = [there |-> AllHeaders, headers |-> l, active |-> 1, index |-> 1, prevShow |-> NoHeader,
                     prevHide |-> NoHeader, running |-> FALSE, oldPanel |-> NoHeader, shown |-> {1}, marked |-> {1},
                     collapsible |-> collapsible, animate |-> animate, refused |-> FALSE,
                     stuck |-> FALSE]
  BY DEF AccordionInit
<1>3. 1 \in AllHeaders /\ 1 \in 0..HeaderCount /\ NoHeader \in 0..HeaderCount /\ 1 # NoHeader
  BY AccordionAssumption DEF AllHeaders, NoHeader
<1>4. \A i \in DOMAIN l : l[i] = i
  <2>1. l = [i \in 1..Cardinality(AllHeaders) |->
              CHOOSE e \in AllHeaders : Cardinality({d \in AllHeaders : d < e}) = i - 1]
    BY DEF InOrder
  <2> HIDE DEF l
  <2> QED BY <2>1, AccordionAssumption, RankedInterval DEF AllHeaders
<1> HIDE DEF l
<1>5. /\ accordion.there = AllHeaders /\ accordion.headers = l /\ accordion.active = 1 /\ accordion.index = 1
      /\ accordion.prevShow = NoHeader /\ accordion.prevHide = NoHeader /\ accordion.running = FALSE
      /\ accordion.oldPanel = NoHeader /\ accordion.shown = {1} /\ accordion.marked = {1}
  BY <1>2
<1>6. accordion \in AccordionRecords
  BY <1>1, <1>2, <1>3 DEF AccordionRecords
<1>7. AccordionTyped(accordion)
  BY <1>1, <1>3, <1>5, <1>6 DEF AccordionTyped
<1>8. IndexOf(accordion, 1) = 1
  <2>1. IndexOf(accordion, 1) \in DOMAIN l /\ l[IndexOf(accordion, 1)] = 1
    <3>1. \E i \in DOMAIN l : l[i] = 1
      BY <1>1, <1>3 DEF Range
    <3> QED BY <1>1, <1>3, <1>5, <3>1 DEF IndexOf
  <2> QED BY <1>4, <2>1
<1>9. ActiveFollows(accordion)
  BY <1>1, <1>3, <1>5, <1>8 DEF ActiveFollows
<1>10. MarksFollow(accordion) /\ ShownFollows(accordion)
  BY <1>3, <1>5 DEF MarksFollow, ShownFollows, OnPage
<1> QED BY <1>7, <1>9, <1>10 DEF AccordionOK, AccordionFollows

LEMMA ClickKept ==
  ASSUME NEW s, AccordionOK(s), NEW h \in Range(s.headers), NEW allow \in BOOLEAN
  PROVE  AccordionOK(click(s, h, allow))
<1>1. AccordionTyped(s) /\ h \in 0..HeaderCount /\ h # NoHeader
  BY HeadersAre, AccordionAssumption DEF AccordionOK, AllHeaders
<1>2. AccordionTyped(click(s, h, allow)) /\ click(s, h, allow).stuck = s.stuck
  BY <1>1, ClickTyped DEF SameAccordion
<1>3. ASSUME ~s.stuck PROVE AccordionFollows(click(s, h, allow))
  <2>1. MarksFollow(s) /\ s.shown \cap Range(s.headers) \subseteq {s.active} \cup hidden(s)
    BY <1>3 DEF AccordionOK, AccordionFollows, ShownFollows, hidden
  <2>2. CASE h = s.active /\ ~s.collapsible
    BY <1>3, <2>2 DEF click, AccordionOK
  <2>3. CASE ~(h = s.active /\ ~s.collapsible) /\ allow
    <3>1. click(s, h, allow) = click(s, h, TRUE)
      BY <2>3
    <3>2. AccordionFollows(click(s, h, TRUE))
      BY <1>1, <2>1, <2>3, ClickFollows DEF AccordionFollows
    <3> QED BY <3>1, <3>2
  <2>4. CASE ~(h = s.active /\ ~s.collapsible) /\ ~allow
    <3>1. click(s, h, allow) = click(s, h, FALSE)
      BY <2>4
    <3>2. RefuseFacts(s, click(s, h, FALSE))
      BY <1>1, <2>4, RefuseIs
    <3>3. ActiveFollows(s) /\ MarksFollow(s) /\ ShownFollows(s)
      BY <1>3 DEF AccordionOK, AccordionFollows
    <3>4. AccordionFollows(click(s, h, FALSE))
      BY <3>2, <3>3, RefuseFollows DEF AccordionFollows, ActiveFollows
    <3> QED BY <3>1, <3>4
  <2> QED BY <2>2, <2>3, <2>4
<1> QED BY <1>2, <1>3 DEF AccordionOK

LEMMA ActivateHeaderKept ==
  ASSUME NEW s, AccordionOK(s), NEW i, NEW allow \in BOOLEAN
  PROVE  AccordionOK(activateHeader(s, i, allow))
<1> DEFINE t == activateHeader(s, i, allow)
<1>1. AccordionTyped(s)
  BY DEF AccordionOK
<1>2. AccordionTyped(t) /\ t.stuck = s.stuck
  BY <1>1, ActivateHeaderTyped DEF SameAccordion
<1>3. ASSUME ~s.stuck PROVE AccordionFollows(t)
  <2>1. MarksFollow(s) /\ s.shown \cap Range(s.headers) \subseteq {s.active} \cup hidden(s)
    BY <1>3 DEF AccordionOK, AccordionFollows, ShownFollows, hidden
  <2>2. t = s \/ RefuseFacts(s, t) \/ (ActiveFollows(t) /\ MarksFollow(t) /\ ShownFollows(t))
    BY <1>1, <2>1, ActivateHeaderFollows
  <2> HIDE DEF t
  <2>3. ActiveFollows(s) /\ MarksFollow(s) /\ ShownFollows(s)
    BY <1>3 DEF AccordionOK, AccordionFollows
  <2>4. RefuseFacts(s, t) => AccordionFollows(t)
    BY <2>3, RefuseFollows DEF AccordionFollows, ActiveFollows
  <2> QED BY <2>2, <2>3, <2>4 DEF AccordionFollows
<1> QED BY <1>2, <1>3 DEF AccordionOK

LEMMA FinishKept ==
  ASSUME NEW s, AccordionOK(s), s.running
  PROVE  AccordionOK(finish(s))
<1> DEFINE t == finish(s)
<1>1. s \in AccordionRecords
  BY DEF AccordionOK, AccordionTyped
<1>2. /\ t \in AccordionRecords
      /\ t.there = s.there /\ t.headers = s.headers /\ t.collapsible = s.collapsible /\ t.stuck = s.stuck /\ t.refused = s.refused
      /\ t.active = s.active /\ t.index = s.index /\ t.prevShow = s.prevShow
      /\ t.running = FALSE
      /\ t.shown = s.shown \ {s.prevHide} /\ t.marked = s.marked \ {s.oldPanel}
  BY <1>1, FinishIs DEF SameAccordion
<1> HIDE DEF t
<1>3. AccordionTyped(t)
  BY <1>2 DEF AccordionOK, AccordionTyped
<1>4. ASSUME ~s.stuck PROVE AccordionFollows(t)
  <2>1. AccordionFollows(s)
    BY <1>4 DEF AccordionOK
  <2>2. IndexOf(t, t.active) = IndexOf(s, s.active) /\ OnPage(t, t.active) = OnPage(s, s.active)
    BY <1>2 DEF IndexOf, OnPage
  <2>3. ActiveFollows(t)
    BY <1>2, <2>1, <2>2 DEF AccordionFollows, ActiveFollows
  <2>4. MarksFollow(t)
    BY <1>2, <2>1 DEF AccordionFollows, MarksFollow
  <2>5. s.active = NoHeader => OnPage(s, s.active) = {}
    BY <1>3, <1>2, HeadersAre DEF OnPage
  <2>6. s.active # NoHeader => s.active \notin {s.prevHide, s.oldPanel}
    BY <2>1 DEF AccordionFollows, MarksFollow
  <2>7. OnPage(s, s.active) \subseteq {s.active}
    BY DEF OnPage
  <2>8. ShownFollows(t)
    BY <1>2, <2>1, <2>2, <2>5, <2>6, <2>7 DEF AccordionFollows, ShownFollows
  <2> QED BY <2>3, <2>4, <2>8 DEF AccordionFollows
<1> QED BY <1>2, <1>3, <1>4 DEF t, AccordionOK

LEMMA CollapsibleKept ==
  ASSUME NEW collapsible \in BOOLEAN, NEW allow \in BOOLEAN, AccordionOK(accordion),
         SetAccordionCollapsible(collapsible, allow)
  PROVE  AccordionOK(accordion')
<1> DEFINE s == accordion
           u == [s EXCEPT !.collapsible = collapsible]
           t == accordion'
<1>1. t = IF ~collapsible /\ u.index = NoHeader THEN activateHeader(u, 1, allow) ELSE u
  BY DEF SetAccordionCollapsible
<1>2. s \in AccordionRecords /\ AccordionTyped(s)
  BY DEF AccordionOK, AccordionTyped
<1>3. u \in AccordionRecords /\ u.collapsible = collapsible
  BY <1>2 DEF AccordionRecords
<1>4. /\ u.there = s.there /\ u.headers = s.headers /\ u.active = s.active /\ u.index = s.index
      /\ u.prevShow = s.prevShow /\ u.prevHide = s.prevHide /\ u.running = s.running /\ u.oldPanel = s.oldPanel
      /\ u.shown = s.shown /\ u.marked = s.marked /\ u.stuck = s.stuck /\ u.refused = s.refused
  BY <1>2 DEF AccordionRecords
<1> HIDE DEF s, u, t
<1>5. AccordionTyped(u)
  BY <1>2, <1>3, <1>4 DEF AccordionTyped
<1>6. AccordionTyped(t) /\ t.stuck = s.stuck
  BY <1>1, <1>4, <1>5, ActivateHeaderTyped DEF SameAccordion
<1>7. ASSUME ~s.stuck PROVE AccordionFollows(t)
  <2>1. AccordionFollows(s)
    BY <1>7 DEF AccordionOK, s
  <2>2. IndexOf(u, u.active) = IndexOf(s, s.active) /\ OnPage(u, u.active) = OnPage(s, s.active)
    BY <1>4 DEF IndexOf, OnPage
  <2>3. MarksFollow(u) /\ ShownFollows(u)
    BY <1>4, <2>1, <2>2 DEF AccordionFollows, MarksFollow, ShownFollows
  <2>4. s.index = NoHeader <=> s.active = NoHeader
    BY <1>2, <2>1, ActiveNone DEF AccordionFollows
  <2>5. CASE ~(~collapsible /\ u.index = NoHeader)
    <3>1. ActiveFollows(u)
      BY <1>3, <1>4, <2>1, <2>2, <2>4, <2>5 DEF AccordionFollows, ActiveFollows
    <3> QED BY <1>1, <2>3, <2>5, <3>1 DEF AccordionFollows
  <2>6. CASE ~collapsible /\ u.index = NoHeader
    <3>1. t = activateHeader(u, 1, allow) /\ u.active = NoHeader
      BY <1>1, <1>4, <2>4, <2>6
    <3>2. CASE HeaderAt(u, 1) = NoHeader
      <4>1. u.headers = <<>>
        <5>1. 1 \notin DOMAIN u.headers
          BY <1>5, <3>2, HeaderAtIs
        <5> QED BY <1>5, <5>1, HeadersAre
      <4>2. t = u
        BY <3>1, <3>2 DEF activateHeader
      <4>3. ActiveFollows(t)
        BY <1>4, <2>1, <2>2, <4>1, <4>2 DEF AccordionFollows, ActiveFollows
      <4> QED BY <2>3, <4>2, <4>3 DEF AccordionFollows
    <3>3. CASE HeaderAt(u, 1) # NoHeader
      <4>1. u.shown \cap Range(u.headers) \subseteq {u.active} \cup hidden(u)
        BY <2>3 DEF ShownFollows, hidden
      <4>2. u.index = IndexOf(u, u.active) /\ u.active \in Range(u.headers) \cup {NoHeader}
        BY <1>4, <2>1, <2>2 DEF AccordionFollows, ActiveFollows
      <4>3. RefuseFacts(u, t) => AccordionFollows(t)
        BY <2>3, <4>2, RefuseFollows DEF AccordionFollows
      <4> QED BY <1>5, <2>3, <3>1, <3>3, <4>1, <4>3, ActivateHeaderFollows DEF AccordionFollows
    <3> QED BY <3>2, <3>3
  <2> QED BY <2>5, <2>6
<1> QED BY <1>6, <1>7 DEF t, AccordionOK

LEMMA ChangeHeaderKept ==
  ASSUME NEW h \in AllHeaders, AccordionOK(accordion), ChangeHeader(h)
  PROVE  AccordionOK(accordion')
<1> DEFINE s == accordion
           t == accordion'
           there == IF h \in s.there THEN s.there \ {h} ELSE s.there \cup {h}
           shown == IF h \in s.there THEN s.shown \ {h} ELSE s.shown \cup {h}
           marked == IF h \in s.there THEN s.marked \ {h} ELSE s.marked
<1>1. s \in AccordionRecords /\ AccordionTyped(s)
  BY DEF AccordionOK, AccordionTyped
<1>2. /\ t.there = there /\ t.shown = shown /\ t.marked = marked
      /\ h \notin s.there =>
           h \notin Range(s.headers) \cup {s.active, s.prevShow, s.prevHide, s.oldPanel}
  BY <1>1 DEF ChangeHeader, AccordionRecords
<1>3. /\ t.headers = s.headers /\ t.active = s.active /\ t.index = s.index
      /\ t.prevShow = s.prevShow /\ t.prevHide = s.prevHide /\ t.running = s.running /\ t.oldPanel = s.oldPanel
      /\ t.collapsible = s.collapsible /\ t.stuck = s.stuck /\ t.refused = s.refused
  BY <1>1 DEF ChangeHeader, AccordionRecords
<1>4. t \in AccordionRecords
  <2>1. CASE h \in s.there
    <3>1. s.there \ {h} \in SUBSET AllHeaders /\ s.shown \ {h} \in SUBSET AllHeaders
          /\ s.marked \ {h} \in SUBSET AllHeaders
      BY <1>1 DEF AccordionRecords
    <3> DEFINE a == s.there \ {h}
               b == s.shown \ {h}
               c == s.marked \ {h}
    <3>2. t = [s EXCEPT !.there = a, !.shown = b, !.marked = c]
      BY <2>1 DEF ChangeHeader
    <3>3. a \in SUBSET AllHeaders /\ b \in SUBSET AllHeaders /\ c \in SUBSET AllHeaders
      BY <3>1
    <3> HIDE DEF a, b, c, s, t
    <3> QED BY <1>1, <3>2, <3>3 DEF AccordionRecords
  <2>2. CASE h \notin s.there
    <3>1. s.there \cup {h} \in SUBSET AllHeaders /\ s.shown \cup {h} \in SUBSET AllHeaders
      BY <1>1 DEF AccordionRecords
    <3> DEFINE a == s.there \cup {h}
               b == s.shown \cup {h}
    <3>2. t = [s EXCEPT !.there = a, !.shown = b]
      BY <2>2 DEF ChangeHeader
    <3>3. a \in SUBSET AllHeaders /\ b \in SUBSET AllHeaders
      BY <3>1
    <3> HIDE DEF a, b, s, t
    <3> QED BY <1>1, <3>2, <3>3 DEF AccordionRecords
  <2> QED BY <2>1, <2>2
<1>5. t.there \subseteq s.there \cup {h}
  BY <1>2
<1> HIDE DEF s, t
<1>6. AccordionTyped(t)
  <2>1. s.shown \subseteq s.there /\ s.marked \subseteq s.there
    BY <1>1 DEF AccordionTyped
  <2>2. t.shown \cup t.marked \subseteq t.there
    BY <1>2, <2>1
  <2> QED BY <1>1, <1>3, <1>4, <2>2 DEF AccordionTyped
<1>7. ASSUME ~s.stuck PROVE AccordionFollows(t)
  <2>1. AccordionFollows(s)
    BY <1>7 DEF AccordionOK, s
  <2>2. IndexOf(t, t.active) = IndexOf(s, s.active)
    BY <1>3 DEF IndexOf
  <2>3. ActiveFollows(t)
    BY <1>3, <2>1, <2>2 DEF AccordionFollows, ActiveFollows
  <2>4. MarksFollow(t)
    <3>1. s.prevShow \notin s.there => t.prevShow \notin t.there
      BY <1>2, <1>3, <1>5
    <3>2. t.marked \subseteq s.marked
      BY <1>2
    <3> QED BY <1>3, <2>1, <3>1, <3>2 DEF AccordionFollows, MarksFollow
  <2>5. ShownFollows(t)
    <3>1. t.shown \cap Range(t.headers) \subseteq s.shown \cap Range(s.headers)
      BY <1>2, <1>3
    <3>2. OnPage(t, t.active) \subseteq OnPage(s, s.active) \ (IF h \in s.there THEN {h} ELSE {})
      BY <1>2, <1>3 DEF OnPage
    <3>3. OnPage(t, t.active) \subseteq t.shown \cap t.marked
      BY <1>2, <2>1, <3>2 DEF AccordionFollows, ShownFollows
    <3> QED BY <1>3, <2>1, <3>1, <3>3 DEF AccordionFollows, ShownFollows
  <2> QED BY <2>3, <2>4, <2>5 DEF AccordionFollows
<1> QED BY <1>3, <1>6, <1>7 DEF t, AccordionOK

LEMMA RefreshAccordionKept ==
  ASSUME NEW allow \in BOOLEAN, AccordionOK(accordion), RefreshAccordion(allow)
  PROVE  AccordionOK(accordion')
<1> DEFINE s == accordion
           r == processPanels(s)
           u == settle(r, allow)
           w == [u EXCEPT !.stuck = @ \/ u.active \notin u.there \cup {NoHeader}]
           t == accordion'
<1>1. t = redraw(w)
  BY DEF RefreshAccordion
<1>2. AccordionTyped(s)
  BY DEF AccordionOK
<1>3. AccordionTyped(r) /\ r.there = s.there /\ r.stuck = s.stuck /\ (MarksFollow(s) => MarksFollow(r))
  BY <1>2, ProcessIs
<1>4. AccordionTyped(u) /\ u.there = r.there /\ u.stuck = r.stuck
  BY <1>3, SettleTyped DEF SameAccordion
<1> HIDE DEF u, t, s
<1>7. /\ w.there = u.there /\ w.headers = u.headers /\ w.active = u.active /\ w.index = u.index
      /\ w.prevShow = u.prevShow /\ w.prevHide = u.prevHide /\ w.running = u.running /\ w.oldPanel = u.oldPanel
      /\ w.shown = u.shown /\ w.marked = u.marked /\ w.collapsible = u.collapsible
      /\ w.refused = u.refused
  BY <1>4 DEF AccordionTyped, AccordionRecords
<1>8. w \in AccordionRecords /\ (w.stuck <=> (u.stuck \/ u.active \notin u.there \cup {NoHeader}))
  BY <1>4 DEF AccordionTyped, AccordionRecords
<1> HIDE DEF w
<1>9. AccordionTyped(w)
  BY <1>4, <1>7, <1>8 DEF AccordionTyped
<1>10. AccordionTyped(t) /\ t.stuck = w.stuck
  BY <1>1, <1>9, RedrawTyped DEF SameAccordion
<1>11. ASSUME ~w.stuck PROVE AccordionFollows(t)
  <2>1. ~s.stuck /\ u.active \in u.there \cup {NoHeader}
    BY <1>3, <1>4, <1>8, <1>11
  <2>2. ActiveFollows(s) /\ MarksFollow(s)
    BY <2>1 DEF AccordionOK, AccordionFollows, s
  <2>3. settle(r, allow).active \in r.there \cup {NoHeader}
    BY <1>4, <2>1 DEF u
  <2>4. ActiveFollows(u) /\ MarksFollow(u)
    BY <1>2, <2>2, <2>3, SettleFollows DEF u
  <2>5. IndexOf(w, w.active) = IndexOf(u, u.active)
    BY <1>7 DEF IndexOf
  <2>6. ActiveFollows(w)
    BY <1>7, <2>4, <2>5 DEF ActiveFollows
  <2>7. MarksFollow(w)
    BY <1>7, <2>4 DEF MarksFollow
  <2> QED BY <1>1, <1>9, <2>6, <2>7, RedrawFollows
<1> QED BY <1>10, <1>11 DEF t, AccordionOK

LEMMA AccordionStepKeeps ==
  ASSUME AccordionOK(accordion), AccordionNext
  PROVE  AccordionOK(accordion')
<1>1. ASSUME NEW h \in AllHeaders, NEW allow \in BOOLEAN, HeaderClick(h, allow) PROVE AccordionOK(accordion')
  BY <1>1, ClickKept DEF HeaderClick
<1>2. ASSUME NEW h \in AllHeaders, ChangeHeader(h) PROVE AccordionOK(accordion')
  BY <1>2, ChangeHeaderKept
<1>3. ASSUME NEW index, NEW allow \in BOOLEAN, SetActive(index, allow) PROVE AccordionOK(accordion')
  BY <1>3, ActivateHeaderKept DEF SetActive
<1>4. ASSUME NEW b \in BOOLEAN, NEW allow \in BOOLEAN, SetAccordionCollapsible(b, allow)
      PROVE  AccordionOK(accordion')
  BY <1>4, CollapsibleKept
<1>5. ASSUME NEW b \in BOOLEAN, RefreshAccordion(b) PROVE AccordionOK(accordion')
  BY <1>5, RefreshAccordionKept
<1>6. ASSUME AnimationDone PROVE AccordionOK(accordion')
  BY <1>6, FinishKept DEF AnimationDone
<1> QED BY <1>1, <1>2, <1>3, <1>4, <1>5, <1>6 DEF AccordionNext

AccordionAgrees == AccordionTypeOK /\ ActiveHasIndex /\ OnlyActiveShown /\ MarkedIsActive

LEMMA AccordionHolds ==
  ASSUME AccordionOK(accordion)
  PROVE  AccordionAgrees
<1> DEFINE s == accordion
<1>1. AccordionTyped(s) /\ s \in AccordionRecords
  BY DEF AccordionOK, AccordionTyped
<1>2. NoHeader \notin s.there /\ {NoHeader} \cup AllHeaders = 0..HeaderCount
  BY <1>1, HeadersAre, AccordionAssumption DEF NoHeader, AllHeaders
<1>3. AccordionTypeOK
  BY <1>1, <1>2 DEF AccordionTypeOK, AccordionTyped, AccordionRecords
<1>4. ActiveHasIndex
  BY DEF ActiveHasIndex, AccordionOK, AccordionFollows, ActiveFollows
<1>5. ASSUME ~s.stuck
      PROVE  /\ OnPage(s, s.active) \subseteq s.marked
             /\ ~s.running => s.marked = OnPage(s, s.active)
             /\ ~s.running => s.shown \cap Range(s.headers) = OnPage(s, s.active)
  <2>1. AccordionFollows(s)
    BY <1>5 DEF AccordionOK
  <2>2. s.shown \subseteq s.there /\ s.marked \subseteq s.there
    BY <1>1 DEF AccordionTyped
  <2>3. OnPage(s, s.active) \subseteq Range(s.headers)
    BY <1>2, <2>1 DEF AccordionFollows, ActiveFollows, OnPage
  <2> QED BY <2>1, <2>2, <2>3 DEF AccordionFollows, MarksFollow, ShownFollows, OnPage
<1> QED BY <1>3, <1>4, <1>5 DEF AccordionAgrees, OnlyActiveShown, MarkedIsActive

-------------------------------------------------------------------------------
(* Dialogs.                                                                *)

(* RemoveFirst takes away the first occurrence. *)
LEMMA RemoveFirstIs ==
  ASSUME NEW S, NEW q \in Seq(S), NEW e
  PROVE  /\ (\A i \in 1..Len(q) : q[i] # e) => RemoveFirst(q, e) = q
         /\ (\E i \in 1..Len(q) : q[i] = e) =>
              \E i \in 1..Len(q) : q[i] = e /\ RemoveFirst(q, e) = RemoveAt(q, i)
<1> DEFINE I == {i \in 1..Len(q) : q[i] = e}
           k == SelectInSeq(q, LAMBDA v : v = e)
<1>1. k = IF I # {} THEN Min(I) ELSE 0
  BY DEF SelectInSeq
<1>2. ASSUME \E i \in 1..Len(q) : q[i] = e PROVE k \in 1..Len(q) /\ q[k] = e
  <2>1. I \in SUBSET Nat /\ I # {}
    BY <1>2
  <2>2. \E x \in I : \A y \in I : x <= y
    BY <2>1, LeastNat
  <2>3. Min(I) \in I
    BY <2>2 DEF Min
  <2> QED BY <1>1, <2>1, <2>3
<1>3. RemoveFirst(q, e) = IF \E i \in 1..Len(q): q[i] = e THEN RemoveAt(q, k) ELSE q
  BY DEF RemoveFirst
<1> HIDE DEF k
<1> QED BY <1>2, <1>3

LEMMA RemoveAtIs ==
  ASSUME NEW S, NEW q \in Seq(S), NEW i \in 1..Len(q), NEW w, w = RemoveAt(q, i)
  PROVE  /\ w \in Seq(S) /\ Len(w) = Len(q) - 1
         /\ \A j \in 1..Len(w) : w[j] = IF j < i THEN q[j] ELSE q[j + 1]
<1> DEFINE a == SubSeq(q, 1, i - 1)
           b == SubSeq(q, i + 1, Len(q))
<1>1. Len(q) \in Nat /\ i \in Int /\ i - 1 \in Int /\ i + 1 \in Int /\ 1 \in Int
  BY LenProperties
<1>2. \A j \in 1..Len(q) : q[j] \in S
  BY ElementOfSeq
<1>3. \A j \in 1..i - 1 : q[j] \in S
  BY <1>1, <1>2
<1>4. /\ a \in Seq(S)
      /\ Len(a) = IF 1 <= i - 1 THEN (i - 1) - 1 + 1 ELSE 0
      /\ \A j \in 1..(i - 1) - 1 + 1 : a[j] = q[1 + j - 1]
  BY <1>1, <1>3, SubSeqProperties
<1>5. \A j \in i + 1..Len(q) : q[j] \in S
  BY <1>1, <1>2
<1>6. /\ b \in Seq(S)
      /\ Len(b) = IF i + 1 <= Len(q) THEN Len(q) - (i + 1) + 1 ELSE 0
      /\ \A j \in 1..Len(q) - (i + 1) + 1 : b[j] = q[i + 1 + j - 1]
  BY <1>1, <1>5, SubSeqProperties
<1>7. w = a \o b
  BY DEF RemoveAt
<1>8. Len(a) = i - 1 /\ Len(b) = Len(q) - i
  BY <1>1, <1>4, <1>6
<1> HIDE DEF a, b
<1>20. a \in Seq(S)
  BY <1>4
<1>21. b \in Seq(S)
  BY <1>6
<1>9. /\ w \in Seq(S)
      /\ Len(w) = Len(a) + Len(b)
      /\ \A j \in 1..Len(a) + Len(b) : w[j] = IF j <= Len(a) THEN a[j] ELSE b[j - Len(a)]
  BY ONLY <1>7, <1>20, <1>21, ConcatProperties
<1>10. Len(w) = Len(q) - 1
  BY <1>1, <1>8, <1>9
<1>11. ASSUME NEW j \in 1..Len(w) PROVE w[j] = IF j < i THEN q[j] ELSE q[j + 1]
  <2>1. j \in Int /\ 1 <= j /\ j <= Len(q) - 1
    BY <1>1, <1>10
  <2>2. CASE j < i
    <3>1. j \in 1..(i - 1) - 1 + 1 /\ 1 + j - 1 = j /\ j <= Len(a)
      BY <1>1, <1>8, <2>1, <2>2
    <3> QED BY <1>4, <1>9, <2>2, <3>1
  <2>3. CASE ~(j < i)
    <3> DEFINE m == j - Len(a)
    <3>1. m \in 1..Len(q) - (i + 1) + 1 /\ i + 1 + m - 1 = j + 1 /\ ~(j <= Len(a))
      BY <1>1, <1>8, <2>1, <2>3
    <3>2. w[j] = b[m]
      BY <1>9, <3>1
    <3>3. b[m] = q[i + 1 + m - 1]
      BY <1>6, <3>1
    <3> HIDE DEF m
    <3> QED BY <2>3, <3>1, <3>2, <3>3
  <2> QED BY <2>2, <2>3
<1> QED BY <1>9, <1>10, <1>11

(* A list of distinct elements without one of them. *)
LEMMA WithoutIs ==
  ASSUME NEW S, NEW q \in Seq(S), IsInjective(q), NEW e
  PROVE  /\ RemoveFirst(q, e) \in Seq(S)
         /\ IsInjective(RemoveFirst(q, e))
         /\ Range(RemoveFirst(q, e)) = Range(q) \ {e}
<1> DEFINE w == RemoveFirst(q, e)
<1>1. DOMAIN q = 1..Len(q) /\ Len(q) \in Nat
  BY LenProperties
<1>2. CASE \A i \in 1..Len(q) : q[i] # e
  <2>1. w = q
    BY <1>2, RemoveFirstIs
  <2>2. e \notin Range(q)
    BY <1>1, <1>2 DEF Range
  <2> QED BY <2>1, <2>2
<1>3. CASE \E i \in 1..Len(q) : q[i] = e
  <2>1. PICK i \in 1..Len(q) : q[i] = e /\ w = RemoveAt(q, i)
    BY <1>3, RemoveFirstIs
  <2> HIDE DEF w
  <2>2. /\ w \in Seq(S) /\ Len(w) = Len(q) - 1
        /\ \A j \in 1..Len(w) : w[j] = IF j < i THEN q[j] ELSE q[j + 1]
    BY <2>1, RemoveAtIs
  <2>3. DOMAIN w = 1..Len(w) /\ Len(w) \in Nat
    BY <2>2, LenProperties
  <2> DEFINE old(j) == IF j < i THEN j ELSE j + 1
  <2>4. \A j \in 1..Len(w) : old(j) \in 1..Len(q) /\ old(j) # i /\ w[j] = q[old(j)]
    BY <1>1, <2>2, <2>3
  <2>5. \A j \in 1..Len(w), k \in 1..Len(w) : old(j) = old(k) => j = k
    BY <2>3
  <2>6. \A m \in 1..Len(q) : m # i => \E j \in 1..Len(w) : old(j) = m
    <3> SUFFICES ASSUME NEW m \in 1..Len(q), m # i PROVE \E j \in 1..Len(w) : old(j) = m
      OBVIOUS
    <3>1. CASE m < i
      <4>1. m \in 1..Len(w) /\ old(m) = m
        BY <1>1, <2>2, <3>1
      <4> QED BY <4>1
    <3>2. CASE i < m
      <4>1. m - 1 \in 1..Len(w) /\ old(m - 1) = m
        BY <1>1, <2>2, <3>2
      <4> QED BY <4>1
    <3> QED BY <1>1, <3>1, <3>2
  <2> HIDE DEF old
  <2>7. IsInjective(w)
    <3> SUFFICES ASSUME NEW j \in 1..Len(w), NEW k \in 1..Len(w), w[j] = w[k] PROVE j = k
      BY <2>3 DEF IsInjective
    <3>1. old(j) = old(k)
      BY <1>1, <2>4 DEF IsInjective
    <3> QED BY <2>5, <3>1
  <2>8. Range(w) \subseteq Range(q) \ {e}
    <3> SUFFICES ASSUME NEW j \in 1..Len(w) PROVE w[j] \in Range(q) /\ w[j] # e
      BY <2>3 DEF Range
    <3>1. w[j] = q[old(j)] /\ old(j) \in 1..Len(q) /\ old(j) # i
      BY <2>4
    <3>2. q[old(j)] # q[i]
      BY <1>1, <3>1 DEF IsInjective
    <3> QED BY <1>1, <2>1, <3>1, <3>2 DEF Range
  <2>9. Range(q) \ {e} \subseteq Range(w)
    <3> SUFFICES ASSUME NEW m \in 1..Len(q), q[m] # e PROVE q[m] \in Range(w)
      BY <1>1 DEF Range
    <3>1. PICK j \in 1..Len(w) : old(j) = m
      BY <2>1, <2>6
    <3>2. w[j] = q[m]
      BY <2>4, <3>1
    <3> QED BY <2>3, <3>2 DEF Range
  <2> QED BY <2>2, <2>7, <2>8, <2>9 DEF w
<1> QED BY <1>2, <1>3

LEMMA FrontIs ==
  ASSUME NEW S, NEW q \in Seq(S), IsInjective(q), NEW e \in S, e \notin Range(q), NEW w, w = <<e>> \o q
  PROVE  /\ w \in Seq(S) /\ IsInjective(w) /\ Range(w) = {e} \cup Range(q)
         /\ Head(w) = e /\ w # <<>>
<1>1. <<e>> \in Seq(S) /\ Len(<<e>>) = 1 /\ <<e>>[1] = e
  OBVIOUS
<1>2. Len(q) \in Nat /\ DOMAIN q = 1..Len(q)
  BY LenProperties
<1>3. /\ w \in Seq(S) /\ Len(w) = 1 + Len(q)
      /\ \A i \in 1..1 + Len(q) : w[i] = IF i <= 1 THEN <<e>>[i] ELSE q[i - 1]
  BY <1>1, ConcatProperties
<1>4. DOMAIN w = 1..1 + Len(q) /\ Len(w) \in Nat
  BY <1>3, LenProperties
<1>5. w[1] = e
  BY <1>1, <1>2, <1>3
<1>6. \A i \in 1..Len(q) : i + 1 \in DOMAIN w /\ w[i + 1] = q[i]
  BY <1>2, <1>3, <1>4
<1>7. \A i \in DOMAIN w : i = 1 \/ (i - 1 \in 1..Len(q) /\ w[i] = q[i - 1])
  BY <1>2, <1>3, <1>4
<1>8. 1 \in DOMAIN w
  BY <1>2, <1>4
<1>9. IsInjective(w)
  <2> SUFFICES ASSUME NEW i \in DOMAIN w, NEW j \in DOMAIN w, w[i] = w[j] PROVE i = j
    BY DEF IsInjective
  <2>1. \A k \in 1..Len(q) : q[k] # e
    BY <1>2 DEF Range
  <2>2. CASE i = 1 \/ j = 1
    BY <1>5, <1>7, <2>1, <2>2
  <2>3. CASE i # 1 /\ j # 1
    <3>1. i - 1 \in DOMAIN q /\ j - 1 \in DOMAIN q /\ q[i - 1] = q[j - 1]
      BY <1>2, <1>7, <2>3
    <3>2. i - 1 = j - 1
      BY <3>1 DEF IsInjective
    <3>3. i \in Int /\ j \in Int
      BY <1>4
    <3> QED BY <3>2, <3>3
  <2> QED BY <2>2, <2>3
<1>10. Range(w) \subseteq {e} \cup Range(q)
  BY <1>2, <1>5, <1>7 DEF Range
<1>11. {e} \cup Range(q) \subseteq Range(w)
  <2>1. e \in Range(w)
    BY <1>5, <1>8 DEF Range
  <2>2. \A i \in 1..Len(q) : q[i] \in Range(w)
    BY <1>6 DEF Range
  <2>3. Range(q) \subseteq Range(w)
    BY <1>2, <2>2 DEF Range
  <2> QED BY <2>1, <2>3
<1>12. Head(w) = e /\ w # <<>>
  BY <1>3, <1>4, <1>5, <1>8
<1> QED BY <1>3, <1>9, <1>10, <1>11, <1>12

LEMMA MaxIs ==
  ASSUME NEW n \in Nat, NEW A \in SUBSET (0..n), A # {}
  PROVE  Max(A) \in A /\ \A a \in A : Max(A) >= a
<1> DEFINE T == {n - a : a \in A}
<1>1. T \subseteq Nat /\ T # {}
  <2>1. \A a \in A : a \in Int /\ 0 <= a /\ a <= n
    OBVIOUS
  <2>2. \A a \in A : n - a \in Nat
    BY <2>1
  <2>3. PICK a \in A : TRUE
    OBVIOUS
  <2>4. n - a \in T
    BY <2>3
  <2> QED BY <2>2, <2>4
<1>2. PICK x \in T : \A y \in T : x <= y
  BY <1>1, LeastNat
<1>3. PICK m \in A : x = n - m
  BY <1>2
<1>4. \A a \in A : m >= a
  <2> SUFFICES ASSUME NEW a \in A PROVE m >= a
    OBVIOUS
  <2>1. n - m <= n - a
    BY <1>2, <1>3
  <2>2. m \in Int /\ a \in Int
    OBVIOUS
  <2> QED BY <2>1, <2>2
<1> QED BY <1>4 DEF Max

-------------------------------------------------------------------------------
(* The dialogs. *)

Focusable == Dialogs \cup {Page, Nowhere}

DialogState ==
  [open : SUBSET Dialogs, modal : SUBSET Dialogs, z : [Dialogs -> 0..MaxZ],
   overlay : [Dialogs -> (0..MaxZ) \cup {Nowhere}], overlays : Nat, handler : BOOLEAN,
   isOpening : BOOLEAN, instances : Seq(Dialogs), opener : [Dialogs -> Focusable],
   focus : Focusable]

Overlaid(s) == {d \in Dialogs : s.overlay[d] # Nowhere}

(* The list on the document holds the open dialogs, each once. *)
Tracked(s) == IsInjective(s.instances) /\ Range(s.instances) = s.open

(* The overlays are counted, those of switched dialogs too, and each lies  *)
(* below its dialog.                                                       *)
OverlaysCounted(s) ==
  /\ s.overlays = Cardinality(Overlaid(s))
  /\ s.handler <=> s.overlays > 0
  /\ \A d \in Overlaid(s) : s.overlay[d] < s.z[d]

(* A dialog that was never switched while it was open has its overlay      *)
(* exactly while it is open and modal.                                     *)
OverlaysFollow(s, kind) ==
  \A d \in Dialogs \ kind : d \in Overlaid(s) <=> d \in s.open \cap s.modal

TopFollows(s, t) == t # Nowhere => \A z \in Beside(s, t) : z < s.z[t]

DialogsOK(s, t, kind) ==
  /\ s \in DialogState /\ t \in Dialogs \cup {Nowhere} /\ kind \subseteq Dialogs
  /\ Tracked(s) /\ OverlaysCounted(s) /\ OverlaysFollow(s, kind) /\ TopFollows(s, t)

LEMMA DialogsBegin == DialogInit => DialogsOK(dlg, top, switched)
<1> SUFFICES ASSUME DialogInit PROVE DialogsOK(dlg, top, switched)
  OBVIOUS
<1>1. 0 \in 0..MaxZ /\ <<>> \in Seq(Dialogs) /\ Nowhere \in Focusable
  BY DialogAssumption, EmptySeq DEF Focusable
<1>2. dlg \in DialogState
  BY <1>1 DEF DialogInit, DialogState, BaseZ
<1>3. Overlaid(dlg) = {} /\ Cardinality({}) = 0
  BY FS_EmptySet DEF DialogInit, Overlaid
<1>4. Tracked(dlg)
  BY DEF DialogInit, Tracked, IsInjective, Range
<1>5. OverlaysCounted(dlg)
  <2>1. Cardinality(Overlaid(dlg)) = 0
    BY <1>3
  <2>2. dlg.overlays = 0 /\ dlg.handler = FALSE
    BY DEF DialogInit
  <2> QED BY <1>3, <2>1, <2>2 DEF OverlaysCounted
<1>6. OverlaysFollow(dlg, switched)
  BY <1>3 DEF DialogInit, OverlaysFollow
<1>7. TopFollows(dlg, top)
  BY DEF DialogInit, TopFollows
<1> QED BY <1>2, <1>4, <1>5, <1>6, <1>7 DEF DialogInit, DialogsOK

(* What the focus does not touch. *)
SameDialogs(s, t) ==
  /\ t.open = s.open /\ t.modal = s.modal /\ t.z = s.z /\ t.overlay = s.overlay
  /\ t.overlays = s.overlays /\ t.handler = s.handler

Focused(s, t, e) ==
  /\ t \in DialogState /\ SameDialogs(s, t) /\ t.opener = s.opener /\ t.isOpening = s.isOpening
  /\ IsInjective(t.instances) /\ Range(t.instances) = Range(s.instances) \cup ({e} \cap Dialogs)
  /\ e \in Dialogs => t.focus = e
  /\ e \notin Dialogs /\ s.handler /\ ~s.isOpening /\ s.instances # <<>> => t.focus \in Dialogs

LEMMA MakeFocusTargetIs ==
  ASSUME NEW s \in DialogState, IsInjective(s.instances), NEW e \in Dialogs
  PROVE  LET t == makeFocusTarget(s, e)
         IN  /\ t \in DialogState /\ SameDialogs(s, t) /\ t.opener = s.opener
             /\ t.isOpening = s.isOpening /\ t.focus = s.focus
             /\ IsInjective(t.instances) /\ Range(t.instances) = Range(s.instances) \cup {e}
             /\ t.instances # <<>>
<1> DEFINE q == RemoveFirst(s.instances, e)
           w == <<e>> \o q
           t == makeFocusTarget(s, e)
<1>1. s.instances \in Seq(Dialogs)
  BY DEF DialogState
<1>2. q \in Seq(Dialogs) /\ IsInjective(q) /\ Range(q) = Range(s.instances) \ {e}
  BY <1>1, WithoutIs
<1> HIDE DEF q
<1>3. /\ w \in Seq(Dialogs) /\ IsInjective(w) /\ Range(w) = {e} \cup Range(q)
      /\ Head(w) = e /\ w # <<>>
  BY <1>2, FrontIs
<1>4. t = [s EXCEPT !.instances = w]
  BY DEF makeFocusTarget, q
<1> HIDE DEF w, t
<1>5. t \in DialogState
  BY <1>3, <1>4 DEF DialogState
<1>6. t.instances = w
  BY <1>4 DEF DialogState
<1>7. SameDialogs(s, t) /\ t.opener = s.opener /\ t.isOpening = s.isOpening /\ t.focus = s.focus
  BY <1>4 DEF DialogState, SameDialogs
<1> QED BY <1>2, <1>3, <1>5, <1>6, <1>7 DEF t

LEMMA FocusOnIs ==
  ASSUME NEW s \in DialogState, IsInjective(s.instances), NEW e \in Focusable
  PROVE  Focused(s, focusOn(s, e), e)
<1>1. s.instances \in Seq(Dialogs)
  BY DEF DialogState
<1>2. CASE e \in Dialogs
  <2> DEFINE u == [s EXCEPT !.focus = e]
             t == makeFocusTarget(u, e)
  <2>1. u \in DialogState
    BY DEF DialogState, Focusable
  <2>2. SameDialogs(s, u) /\ u.opener = s.opener /\ u.isOpening = s.isOpening /\ u.instances = s.instances /\ u.focus = e
    BY DEF DialogState, SameDialogs
  <2>3. focusOn(s, e) = t
    BY <1>2 DEF focusOn
  <2> HIDE DEF u
  <2>4. /\ t \in DialogState /\ SameDialogs(u, t) /\ t.opener = u.opener
        /\ t.isOpening = u.isOpening /\ t.focus = u.focus
        /\ IsInjective(t.instances) /\ Range(t.instances) = Range(u.instances) \cup {e}
    BY <1>2, <2>1, <2>2, MakeFocusTargetIs
  <2> HIDE DEF t
  <2>5. {e} \cap Dialogs = {e}
    BY <1>2
  <2> QED BY <1>2, <2>2, <2>3, <2>4, <2>5 DEF Focused, SameDialogs
<1>3. CASE e \notin Dialogs /\ s.handler /\ ~s.isOpening /\ s.instances # <<>>
  <2> DEFINE h == Head(s.instances)
             u == [s EXCEPT !.focus = h]
             t == makeFocusTarget(u, h)
  <2>0. h \in Dialogs
    BY <1>1, <1>3, HeadTailProperties
  <2>9. h \in Range(s.instances)
    BY <1>1, <1>3, LenProperties, EmptySeq DEF Range
  <2>1. u \in DialogState
    BY <2>0 DEF DialogState, Focusable
  <2>2. SameDialogs(s, u) /\ u.opener = s.opener /\ u.isOpening = s.isOpening /\ u.instances = s.instances /\ u.focus = h
    BY DEF DialogState, SameDialogs
  <2>3. focusOn(s, e) = t
    BY <1>3 DEF focusOn
  <2> HIDE DEF u, h
  <2>4. /\ t \in DialogState /\ SameDialogs(u, t) /\ t.opener = u.opener
        /\ t.isOpening = u.isOpening /\ t.focus = u.focus
        /\ IsInjective(t.instances) /\ Range(t.instances) = Range(u.instances) \cup {h}
    BY <2>0, <2>1, <2>2, MakeFocusTargetIs
  <2> HIDE DEF t
  <2>5. Range(s.instances) \cup {h} = Range(s.instances) \cup ({e} \cap Dialogs)
    BY <1>3, <2>9
  <2> QED BY <1>3, <2>0, <2>2, <2>3, <2>4, <2>5 DEF Focused, SameDialogs
<1>4. CASE e \notin Dialogs /\ ~(s.handler /\ ~s.isOpening /\ s.instances # <<>>)
  <2> DEFINE t == [s EXCEPT !.focus = e]
  <2>1. focusOn(s, e) = t
    BY <1>4 DEF focusOn
  <2>2. t \in DialogState
    BY DEF DialogState
  <2>3. SameDialogs(s, t) /\ t.opener = s.opener /\ t.isOpening = s.isOpening /\ t.instances = s.instances
    BY DEF DialogState, SameDialogs
  <2> HIDE DEF t
  <2>4. Range(s.instances) = Range(s.instances) \cup ({e} \cap Dialogs)
    BY <1>4
  <2> QED BY <1>4, <2>1, <2>2, <2>3, <2>4 DEF Focused
<1> QED BY <1>2, <1>3, <1>4

(* What the focus moves, the order of the others does not. *)
LEMMA FocusKeeps ==
  ASSUME NEW s \in DialogState, IsInjective(s.instances), NEW e \in Focusable,
         NEW t, NEW kind, OverlaysCounted(s), OverlaysFollow(s, kind), TopFollows(s, t),
         Range(s.instances) \cup ({e} \cap Dialogs) = s.open
  PROVE  LET u == focusOn(s, e)
         IN  /\ u \in DialogState /\ Tracked(u) /\ OverlaysCounted(u) /\ OverlaysFollow(u, kind)
             /\ TopFollows(u, t)
<1> DEFINE u == focusOn(s, e)
<1>1. Focused(s, u, e)
  BY FocusOnIs
<1> HIDE DEF u
<1>2. u \in DialogState /\ SameDialogs(s, u)
  BY <1>1 DEF Focused
<1>3. Tracked(u)
  BY <1>1 DEF Focused, SameDialogs, Tracked
<1>4. Overlaid(u) = Overlaid(s)
  BY <1>2 DEF SameDialogs, Overlaid
<1>5. OverlaysCounted(u)
  BY <1>2, <1>4 DEF SameDialogs, OverlaysCounted
<1>6. OverlaysFollow(u, kind)
  BY <1>2, <1>4 DEF SameDialogs, OverlaysFollow
<1>7. TopFollows(u, t)
  BY <1>2 DEF SameDialogs, TopFollows, Beside
<1> QED BY <1>2, <1>3, <1>5, <1>6, <1>7 DEF u

(* Heights are bounded, so that there is a highest. *)
LEMMA BesideIs ==
  ASSUME NEW s \in DialogState, NEW d \in Dialogs
  PROVE  Beside(s, d) \subseteq 0..MaxZ
BY DEF Beside, DialogState

Raised(s, t, d) ==
  /\ t \in DialogState /\ t = [s EXCEPT !.z = t.z]
  /\ \A e \in Dialogs : e # d => t.z[e] = s.z[e]
  /\ t.z[d] >= s.z[d]
  /\ \A z \in Beside(s, d) : z < t.z[d]

LEMMA MoveToTopIs ==
  ASSUME NEW s \in DialogState, NEW d \in Dialogs, \A z \in Beside(s, d) : z < MaxZ
  PROVE  Raised(s, moveToTop(s, d), d)
<1> DEFINE A == Beside(s, d)
           t == moveToTop(s, d)
           y == [s.z EXCEPT ![d] = Max(A) + 1]
<1>1. A \subseteq 0..MaxZ /\ MaxZ \in Nat
  BY BesideIs, DialogAssumption
<1>2. s.z \in [Dialogs -> 0..MaxZ] /\ s = [s EXCEPT !.z = s.z]
  BY DEF DialogState
<1>3. CASE A # {} /\ Max(A) >= s.z[d]
  <2>1. Max(A) \in A /\ \A a \in A : Max(A) >= a
    BY <1>1, <1>3, MaxIs
  <2>2. Max(A) \in 0..MaxZ /\ Max(A) < MaxZ
    BY <1>1, <2>1
  <2>3. t = [s EXCEPT !.z = y]
    BY <1>3 DEF moveToTop
  <2>4. y \in [Dialogs -> 0..MaxZ] /\ y[d] = Max(A) + 1 /\ \A e \in Dialogs : e # d => y[e] = s.z[e]
    BY <1>1, <1>2, <2>2
  <2> HIDE DEF y, t, A
  <2>5. t \in DialogState /\ t.z = y
    BY <2>3, <2>4 DEF DialogState
  <2>6. \A a \in A : a < y[d]
    <3> SUFFICES ASSUME NEW a \in A PROVE a < y[d]
      OBVIOUS
    <3>1. a \in Int /\ Max(A) \in Int /\ Max(A) >= a /\ y[d] = Max(A) + 1
      BY <1>1, <2>1, <2>2, <2>4
    <3> QED BY ONLY <3>1
  <2>7. y[d] >= s.z[d]
    BY <1>1, <1>2, <1>3, <2>2, <2>4
  <2> QED BY <2>3, <2>4, <2>5, <2>6, <2>7 DEF Raised, t, A
<1>4. CASE ~(A # {} /\ Max(A) >= s.z[d])
  <2>1. t = s
    BY <1>4 DEF moveToTop
  <2>2. \A a \in A : a < s.z[d]
    <3> SUFFICES ASSUME NEW a \in A PROVE a < s.z[d]
      OBVIOUS
    <3>1. Max(A) \in A /\ Max(A) >= a
      BY <1>1, MaxIs
    <3>2. ~(Max(A) >= s.z[d])
      BY <1>4
    <3> HIDE DEF A
    <3>3. Max(A) \in Int /\ a \in Int /\ s.z[d] \in Int
      BY <1>1, <1>2, <3>1
    <3> QED BY <3>1, <3>2, <3>3
  <2>3. s.z[d] >= s.z[d]
    BY <1>2
  <2> QED BY <1>2, <2>1, <2>2, <2>3 DEF Raised
<1> QED BY <1>3, <1>4

(* The bound of the model on heights. *)
LEMMA BoundOnHeights ==
  ASSUME NEW s \in DialogState, NEW d \in Dialogs, Max(Beside(s, d) \cup {BaseZ}) < MaxZ
  PROVE  0 < MaxZ /\ \A z \in Beside(s, d) : z < MaxZ
<1> DEFINE A == Beside(s, d) \cup {0}
<1>1. A \subseteq 0..MaxZ /\ A # {} /\ MaxZ \in Nat
  BY BesideIs, DialogAssumption
<1>2. Max(A) \in A /\ \A a \in A : Max(A) >= a
  BY <1>1, MaxIs
<1>3. Max(A) < MaxZ /\ 0 \in A /\ Beside(s, d) \subseteq A
  BY DEF BaseZ
<1>4. Max(A) \in Int /\ MaxZ \in Int /\ Max(A) >= 0
  BY <1>1, <1>2, <1>3
<1>5. 0 < MaxZ
  BY <1>3, <1>4
<1>6. ASSUME NEW z \in Beside(s, d) PROVE z < MaxZ
  <2>1. z \in A /\ z \in Int /\ Max(A) >= z
    BY <1>1, <1>2, <1>3
  <2> HIDE DEF A
  <2> QED BY ONLY <1>3, <1>4, <2>1
<1> QED BY <1>5, <1>6

(* Opening: the overlay of a modal dialog is a new one. *)
LEMMA OpenKeeps ==
  ASSUME DialogsOK(dlg, top, switched), NEW d \in Dialogs, Open(d)
  PROVE  DialogsOK(dlg, top, switched)' /\ dlg'.focus = d
<1> DEFINE s == [dlg EXCEPT !.open = @ \cup {d}, !.opener[d] = dlg.focus]
           o == createOverlay(s, d)
           m == moveToTop(o, d)
           l == [m EXCEPT !.overlay[d] = IF @ = Nowhere THEN @ ELSE m.z[d] - 1]
           f == focusOn(l, d)
<1>0. /\ dlg \in DialogState /\ switched \subseteq Dialogs /\ Tracked(dlg) /\ OverlaysCounted(dlg)
      /\ OverlaysFollow(dlg, switched)
  BY DEF DialogsOK
<1>1. d \notin dlg.open /\ d \notin switched /\ dlg' = makeFocusTarget(f, d) /\ top' = d /\ switched' = switched
  BY DEF Open
<1>2. 0 < MaxZ /\ MaxZ \in Nat /\ \A z \in Beside(dlg, d) : z < MaxZ
  BY <1>0, BoundOnHeights, DialogAssumption DEF Open
<1>3. d \notin Overlaid(dlg) /\ dlg.overlay[d] = Nowhere
  BY <1>0, <1>1 DEF OverlaysFollow, Overlaid
<1>4. s \in DialogState
  BY <1>0 DEF DialogState
<1>5. /\ s.open = dlg.open \cup {d} /\ s.modal = dlg.modal /\ s.z = dlg.z /\ s.overlay = dlg.overlay
      /\ s.overlays = dlg.overlays /\ s.handler = dlg.handler /\ s.instances = dlg.instances
  BY <1>0 DEF DialogState
<1> HIDE DEF s
<1>6. /\ o \in DialogState /\ o.open = s.open /\ o.modal = s.modal /\ o.z = s.z /\ o.instances = s.instances
      /\ d \notin s.modal => o = s
      /\ d \in s.modal => /\ o.overlay = [s.overlay EXCEPT ![d] = 0]
                          /\ o.overlays = s.overlays + 1 /\ o.handler = TRUE
  <2>1. CASE d \notin s.modal
    BY <1>4, <2>1 DEF createOverlay
  <2>2. CASE d \in s.modal
    <3> DEFINE lay == [s.overlay EXCEPT ![d] = 0]
               count == s.overlays + 1
               opens == IF s.overlays = 0 THEN TRUE ELSE s.isOpening
    <3>5. s.overlay \in [Dialogs -> (0..MaxZ) \cup {Nowhere}] /\ s.overlays \in Nat /\ s.isOpening \in BOOLEAN
      BY <1>4 DEF DialogState
    <3>6. lay \in [Dialogs -> (0..MaxZ) \cup {Nowhere}]
      BY <1>2, <3>5
    <3>7. opens \in BOOLEAN
      BY <3>5
    <3>1. count \in Nat
      BY <3>5
    <3>2. o = [s EXCEPT !.overlay = lay, !.overlays = count, !.handler = TRUE, !.isOpening = opens]
      BY <2>2 DEF createOverlay, BaseZ
    <3> HIDE DEF lay, count, opens, o
    <3>3. o \in DialogState
      BY <1>4, <3>1, <3>2, <3>6, <3>7 DEF DialogState
    <3>4. o.overlay = lay /\ o.overlays = count /\ o.handler = TRUE
      BY <1>4, <3>2 DEF DialogState
    <3>8. o.open = s.open /\ o.modal = s.modal /\ o.z = s.z /\ o.instances = s.instances
      BY <1>4, <3>2 DEF DialogState
    <3> QED BY <2>2, <3>3, <3>4, <3>8 DEF lay, count
  <2> QED BY <2>1, <2>2
<1> HIDE DEF o
<1>7. \A z \in Beside(o, d) : z < MaxZ
  <2>1. \A e \in Dialogs : o.overlay[e] # Nowhere => o.overlay[e] = 0 \/ (o.overlay[e] = dlg.overlay[e] /\ dlg.overlay[e] # Nowhere)
    <3>1. CASE d \notin s.modal
      BY <1>5, <1>6, <3>1
    <3>2. CASE d \in s.modal
      <4>1. dlg.overlay \in [Dialogs -> (0..MaxZ) \cup {Nowhere}]
        BY <1>0 DEF DialogState
      <4> QED BY <1>5, <1>6, <3>2, <4>1
    <3> QED BY <3>1, <3>2
  <2>2. o.open \ {d} \subseteq dlg.open \ {d} /\ o.z = dlg.z
    BY <1>5, <1>6
  <2>3. Beside(o, d) \subseteq Beside(dlg, d) \cup {0}
    BY <2>1, <2>2 DEF Beside
  <2> QED BY <1>2, <2>3
<1>8. Raised(o, m, d)
  BY <1>6, <1>7, MoveToTopIs
<1> HIDE DEF m
<1>9. m \in DialogState /\ m.z[d] \in 0..MaxZ /\ m.open = o.open /\ m.modal = o.modal /\ m.overlay = o.overlay
  BY <1>6, <1>8 DEF Raised, DialogState
<1>10. m.overlays = o.overlays /\ m.handler = o.handler /\ m.instances = o.instances
  BY <1>6, <1>8 DEF Raised, DialogState
<1>11. d \in s.modal => m.z[d] > 0
  <2> SUFFICES ASSUME d \in s.modal PROVE m.z[d] > 0
    OBVIOUS
  <2>1. o.overlay[d] = 0
    BY <1>4, <1>6 DEF DialogState
  <2>2. 0 \in Beside(o, d)
    BY <2>1, DialogAssumption DEF Beside
  <2> QED BY <1>8, <2>2 DEF Raised
<1> DEFINE low == IF m.overlay[d] = Nowhere THEN Nowhere ELSE m.z[d] - 1
           lay == [m.overlay EXCEPT ![d] = low]
<1>12. m.overlay \in [Dialogs -> (0..MaxZ) \cup {Nowhere}]
  BY <1>9 DEF DialogState
<1>13. /\ d \in s.modal => m.overlay[d] = 0
       /\ d \notin s.modal => m.overlay[d] = Nowhere
  BY <1>3, <1>4, <1>5, <1>6, <1>9 DEF DialogState
<1>14. /\ d \in s.modal => low = m.z[d] - 1 /\ low \in 0..MaxZ
       /\ d \notin s.modal => low = Nowhere
  <2>1. 0 # Nowhere
    BY DialogAssumption
  <2> QED BY <1>2, <1>9, <1>11, <1>13, <2>1
<1> HIDE DEF low
<1>15. lay \in [Dialogs -> (0..MaxZ) \cup {Nowhere}] /\ lay[d] = low /\ \A e \in Dialogs : e # d => lay[e] = m.overlay[e]
  BY <1>12, <1>14
<1>16. l = [m EXCEPT !.overlay = lay]
  BY <1>9, <1>12 DEF low, DialogState
<1> HIDE DEF l, lay
<1>17. l \in DialogState
  BY <1>9, <1>15, <1>16 DEF DialogState
<1>18. l.overlay = lay /\ l.z = m.z /\ l.open = m.open /\ l.modal = m.modal
  BY <1>9, <1>16 DEF DialogState
<1>19. l.overlays = m.overlays /\ l.handler = m.handler /\ l.instances = m.instances
  BY <1>9, <1>16 DEF DialogState
<1>20. \A e \in Dialogs : e # d => l.overlay[e] = dlg.overlay[e] /\ l.z[e] = dlg.z[e]
  <2> SUFFICES ASSUME NEW e \in Dialogs, e # d PROVE l.overlay[e] = dlg.overlay[e] /\ l.z[e] = dlg.z[e]
    OBVIOUS
  <2>1. l.overlay[e] = o.overlay[e]
    BY <1>9, <1>15, <1>18
  <2>2. o.overlay[e] = dlg.overlay[e]
    BY <1>4, <1>5, <1>6 DEF DialogState
  <2>3. l.z[e] = dlg.z[e]
    BY <1>5, <1>6, <1>8, <1>18 DEF Raised
  <2> QED BY <2>1, <2>2, <2>3
<1>21. Overlaid(l) = Overlaid(dlg) \cup ({d} \cap s.modal)
  <2>1. \A e \in Dialogs : e # d => (e \in Overlaid(l) <=> e \in Overlaid(dlg))
    BY <1>20 DEF Overlaid
  <2>2. d \in Overlaid(l) <=> d \in s.modal
    <3>1. l.overlay[d] = low
      BY <1>15, <1>18
    <3>2. \A v \in 0..MaxZ : v # Nowhere
      BY <1>2, DialogAssumption
    <3> QED BY <1>14, <3>1, <3>2 DEF Overlaid
  <2>3. Overlaid(l) \subseteq Dialogs /\ Overlaid(dlg) \subseteq Dialogs
    BY DEF Overlaid
  <2> QED BY <1>3, <2>1, <2>2, <2>3
<1>22. OverlaysCounted(l)
  <2>1. IsFiniteSet(Overlaid(dlg)) /\ Cardinality(Overlaid(dlg)) \in Nat
    BY DialogAssumption, FS_Subset, FS_CardinalityType DEF Overlaid
  <2>2. l.overlays = Cardinality(Overlaid(l)) /\ (l.handler <=> l.overlays > 0)
    <3>1. CASE d \in s.modal
      <4>1. Overlaid(l) = Overlaid(dlg) \cup {d}
        BY <1>21, <3>1
      <4>2. Cardinality(Overlaid(l)) = Cardinality(Overlaid(dlg)) + 1
        BY <1>3, <2>1, <4>1, FS_AddElement
      <4>3. l.overlays = dlg.overlays + 1 /\ l.handler = TRUE
        BY <1>5, <1>6, <1>10, <1>19, <3>1
      <4> QED BY <1>0, <2>1, <4>2, <4>3 DEF OverlaysCounted
    <3>2. CASE d \notin s.modal
      <4>1. Overlaid(l) = Overlaid(dlg)
        BY <1>21, <3>2
      <4>2. l.overlays = dlg.overlays /\ l.handler = dlg.handler
        BY <1>5, <1>6, <1>10, <1>19, <3>2
      <4> QED BY <1>0, <4>1, <4>2 DEF OverlaysCounted
    <3> QED BY <3>1, <3>2
  <2>3. ASSUME NEW e \in Overlaid(l) PROVE l.overlay[e] < l.z[e]
    <3>1. CASE e = d
      <4>1. d \in s.modal
        BY <1>3, <1>21, <2>3, <3>1
      <4> QED BY <1>9, <1>14, <1>15, <1>18, <3>1, <4>1
    <3>2. CASE e # d
      <4>1. e \in Overlaid(dlg) /\ e \in Dialogs
        BY <1>21, <3>2 DEF Overlaid
      <4> QED BY <1>0, <1>20, <3>2, <4>1 DEF OverlaysCounted
    <3> QED BY <3>1, <3>2
  <2> QED BY <2>2, <2>3 DEF OverlaysCounted
<1>23. l.open = dlg.open \cup {d} /\ l.modal = dlg.modal /\ l.instances = dlg.instances
  BY <1>5, <1>6, <1>9, <1>10, <1>18, <1>19
<1>24. OverlaysFollow(l, switched)
  <2> SUFFICES ASSUME NEW e \in Dialogs \ switched PROVE e \in Overlaid(l) <=> e \in l.open \cap l.modal
    BY DEF OverlaysFollow
  <2>1. CASE e = d
    BY <1>3, <1>5, <1>21, <1>23, <2>1
  <2>2. CASE e # d
    BY <1>0, <1>21, <1>23, <2>2 DEF OverlaysFollow
  <2> QED BY <2>1, <2>2
<1>25. TopFollows(l, d)
  <2> SUFFICES ASSUME NEW z \in Beside(l, d) PROVE z < l.z[d]
    BY DEF TopFollows
  <2>1. CASE \E e \in l.open \ {d} : z = l.z[e]
    <3>1. PICK e \in l.open \ {d} : z = l.z[e]
      BY <2>1
    <3>2. e \in Dialogs /\ e # d /\ e \in o.open
      BY <1>9, <1>17, <1>18 DEF DialogState
    <3>3. z = o.z[e]
      BY <1>5, <1>6, <1>20, <3>1, <3>2
    <3>4. z \in Beside(o, d)
      BY <3>2, <3>3 DEF Beside
    <3> QED BY <1>8, <1>18, <3>4 DEF Raised
  <2>2. CASE \E e \in Overlaid(l) : z = l.overlay[e]
    <3>1. PICK e \in Overlaid(l) : z = l.overlay[e]
      BY <2>2
    <3>2. CASE e = d
      BY <1>22, <3>1, <3>2 DEF OverlaysCounted
    <3>3. CASE e # d
      <4>1. e \in Dialogs /\ z = o.overlay[e] /\ z # Nowhere
        BY <1>9, <1>15, <1>18, <3>1, <3>3 DEF Overlaid
      <4>2. z \in Beside(o, d)
        BY <4>1 DEF Beside
      <4> QED BY <1>8, <1>18, <4>2 DEF Raised
    <3> QED BY <3>2, <3>3
  <2>3. (\E e \in l.open \ {d} : z = l.z[e]) \/ (\E e \in Overlaid(l) : z = l.overlay[e])
    BY DEF Beside, Overlaid
  <2> QED BY <2>1, <2>2, <2>3
<1>26. Range(l.instances) \cup ({d} \cap Dialogs) = l.open /\ IsInjective(l.instances)
  BY <1>0, <1>23 DEF Tracked
<1>27. /\ f \in DialogState /\ Tracked(f) /\ OverlaysCounted(f) /\ OverlaysFollow(f, switched)
       /\ TopFollows(f, d)
  BY <1>17, <1>22, <1>24, <1>25, <1>26, FocusKeeps DEF Focusable
<1>28. f.focus = d /\ f.open = l.open
  BY <1>17, <1>26, FocusOnIs DEF Focused, SameDialogs, Focusable
<1> HIDE DEF f
<1>29. /\ dlg' \in DialogState /\ SameDialogs(f, dlg') /\ dlg'.focus = f.focus
       /\ IsInjective(dlg'.instances) /\ Range(dlg'.instances) = Range(f.instances) \cup {d}
  BY <1>1, <1>27, MakeFocusTargetIs DEF Tracked
<1>30. d \in f.open
  BY <1>23, <1>28
<1>31. Tracked(dlg')
  BY <1>27, <1>29, <1>30 DEF Tracked, SameDialogs
<1>32. Overlaid(dlg') = Overlaid(f)
  BY <1>29 DEF Overlaid, SameDialogs
<1>33. OverlaysCounted(dlg') /\ OverlaysFollow(dlg', switched)
  BY <1>27, <1>29, <1>32 DEF OverlaysCounted, OverlaysFollow, SameDialogs
<1>34. TopFollows(dlg', d)
  BY <1>27, <1>29 DEF TopFollows, SameDialogs, Beside
<1> QED BY <1>0, <1>1, <1>28, <1>29, <1>31, <1>33, <1>34 DEF DialogsOK

Lowered(s, t, d) ==
  /\ t \in DialogState /\ t.open = s.open /\ t.modal = s.modal /\ t.z = s.z
  /\ t.instances = s.instances /\ t.opener = s.opener /\ t.focus = s.focus
  /\ t.isOpening => s.isOpening
  /\ Overlaid(t) = Overlaid(s) \ ({d} \cap s.modal)
  /\ \A e \in Overlaid(t) : t.overlay[e] = s.overlay[e]
  /\ OverlaysCounted(t)

LEMMA DestroyOverlayIs ==
  ASSUME NEW s \in DialogState, NEW d \in Dialogs, OverlaysCounted(s)
  PROVE  Lowered(s, destroyOverlay(s, d), d)
<1>1. CASE d \notin s.modal \/ s.overlay[d] = Nowhere
  <2>1. destroyOverlay(s, d) = s
    BY <1>1 DEF destroyOverlay
  <2>2. Overlaid(s) = Overlaid(s) \ ({d} \cap s.modal)
    BY <1>1 DEF Overlaid
  <2> QED BY <2>1, <2>2 DEF Lowered
<1>2. CASE d \in s.modal /\ s.overlay[d] # Nowhere
  <2> DEFINE t == destroyOverlay(s, d)
             lay == [s.overlay EXCEPT ![d] = Nowhere]
             count == s.overlays - 1
             more == s.overlays # 1
             opens == s.isOpening /\ s.overlays # 1
  <2>1. t = [s EXCEPT !.overlay = lay, !.overlays = count, !.handler = more, !.isOpening = opens]
    BY <1>2 DEF destroyOverlay, DialogState
  <2>2. d \in Overlaid(s) /\ IsFiniteSet(Overlaid(s))
    BY <1>2, DialogAssumption, FS_Subset DEF Overlaid
  <2>3. Cardinality(Overlaid(s) \ {d}) = Cardinality(Overlaid(s)) - 1
    BY <2>2, FS_RemoveElement
  <2>4. Cardinality(Overlaid(s) \ {d}) \in Nat /\ Cardinality(Overlaid(s)) \in Nat
    BY <2>2, FS_RemoveElement, FS_CardinalityType, FS_Subset
  <2>5. s.overlays = Cardinality(Overlaid(s))
    BY DEF OverlaysCounted
  <2>6. count \in Nat /\ (more <=> count > 0)
    BY <2>3, <2>4, <2>5
  <2>7. s.overlay \in [Dialogs -> (0..MaxZ) \cup {Nowhere}] /\ s.isOpening \in BOOLEAN
    BY DEF DialogState
  <2>8. lay \in [Dialogs -> (0..MaxZ) \cup {Nowhere}]
    BY <2>7
  <2>9. lay[d] = Nowhere /\ \A e \in Dialogs : e # d => lay[e] = s.overlay[e]
    BY <2>7
  <2>10. opens \in BOOLEAN /\ more \in BOOLEAN /\ (opens => s.isOpening)
    OBVIOUS
  <2> HIDE DEF lay, count, more, opens, t
  <2>11. t \in DialogState
    BY <2>1, <2>6, <2>8, <2>10 DEF DialogState
  <2>12. t.open = s.open /\ t.modal = s.modal /\ t.z = s.z
    BY <2>1 DEF DialogState
  <2>13. t.instances = s.instances /\ t.opener = s.opener /\ t.focus = s.focus
    BY <2>1 DEF DialogState
  <2>14. t.overlay = lay /\ t.overlays = count
    BY <2>1 DEF DialogState
  <2>15. t.handler = more /\ t.isOpening = opens
    BY <2>1 DEF DialogState
  <2>16. Overlaid(t) = Overlaid(s) \ {d}
    BY <2>9, <2>14 DEF Overlaid
  <2>17. {d} \cap s.modal = {d}
    BY <1>2
  <2>18. \A e \in Overlaid(t) : e \in Dialogs /\ e # d /\ t.overlay[e] = s.overlay[e]
    BY <2>9, <2>14, <2>16 DEF Overlaid
  <2>19. t.overlays = Cardinality(Overlaid(t)) /\ (t.handler <=> t.overlays > 0)
    BY <2>3, <2>5, <2>6, <2>14, <2>15, <2>16 DEF count
  <2>20. \A e \in Overlaid(t) : t.overlay[e] < t.z[e]
    BY <2>12, <2>16, <2>18 DEF OverlaysCounted
  <2>21. OverlaysCounted(t)
    BY <2>19, <2>20 DEF OverlaysCounted
  <2>22. t.isOpening => s.isOpening
    BY <2>10, <2>15
  <2> QED BY <2>11, <2>12, <2>13, <2>16, <2>17, <2>18, <2>21, <2>22 DEF Lowered, t
<1> QED BY <1>1, <1>2

LEMMA UntrackIs ==
  ASSUME NEW s \in DialogState, NEW d \in Dialogs, IsInjective(s.instances)
  PROVE  LET t == untrack(s, d)
         IN  /\ t \in DialogState /\ SameDialogs(s, t) /\ t.opener = s.opener
             /\ t.isOpening = s.isOpening /\ t.focus = s.focus
             /\ IsInjective(t.instances) /\ Range(t.instances) = Range(s.instances) \ {d}
<1> DEFINE w == RemoveFirst(s.instances, d)
           t == untrack(s, d)
<1>1. s.instances \in Seq(Dialogs)
  BY DEF DialogState
<1>2. w \in Seq(Dialogs) /\ IsInjective(w) /\ Range(w) = Range(s.instances) \ {d}
  BY <1>1, WithoutIs
<1>4. t = [s EXCEPT !.instances = w]
  BY DEF untrack
<1> HIDE DEF w, t
<1>5. t \in DialogState
  BY <1>2, <1>4 DEF DialogState
<1>6. t.instances = w
  BY <1>4 DEF DialogState
<1>7. SameDialogs(s, t) /\ t.opener = s.opener /\ t.isOpening = s.isOpening /\ t.focus = s.focus
  BY <1>4 DEF DialogState, SameDialogs
<1> QED BY <1>2, <1>5, <1>6, <1>7 DEF t

LEMMA BringToTopKeeps ==
  ASSUME DialogsOK(dlg, top, switched), NEW d \in Dialogs, NEW c, BringToTop(d, c)
  PROVE  DialogsOK(dlg, top, switched)' /\ (dlg' = dlg \/ dlg'.focus = d)
<1> DEFINE m == moveToTop(dlg, d)
<1>0. /\ dlg \in DialogState /\ switched \subseteq Dialogs /\ Tracked(dlg) /\ OverlaysCounted(dlg)
      /\ OverlaysFollow(dlg, switched)
  BY DEF DialogsOK
<1>1. /\ d \in dlg.open /\ dlg' = (IF m # dlg THEN focusOn(m, d) ELSE dlg) /\ top' = d
      /\ switched' = switched
  BY DEF BringToTop
<1>2. \A z \in Beside(dlg, d) : z < MaxZ
  BY <1>0, BoundOnHeights DEF BringToTop
<1>3. Raised(dlg, m, d)
  BY <1>0, <1>2, MoveToTopIs
<1> HIDE DEF m
<1>4. m \in DialogState /\ m.open = dlg.open /\ m.modal = dlg.modal /\ m.overlay = dlg.overlay
  BY <1>0, <1>3 DEF Raised, DialogState
<1>5. m.overlays = dlg.overlays /\ m.handler = dlg.handler /\ m.instances = dlg.instances
  BY <1>0, <1>3 DEF Raised, DialogState
<1>6. Overlaid(m) = Overlaid(dlg)
  BY <1>4 DEF Overlaid
<1>7. \A e \in Dialogs : m.z[e] >= dlg.z[e]
  <2> SUFFICES ASSUME NEW e \in Dialogs PROVE m.z[e] >= dlg.z[e]
    OBVIOUS
  <2>1. dlg.z[e] \in Int
    BY <1>0 DEF DialogState
  <2> QED BY <1>3, <2>1 DEF Raised
<1>8. OverlaysCounted(m)
  <2>1. \A e \in Overlaid(m) : m.overlay[e] < m.z[e]
    <3> SUFFICES ASSUME NEW e \in Overlaid(m) PROVE m.overlay[e] < m.z[e]
      OBVIOUS
    <3>1. e \in Dialogs /\ e \in Overlaid(dlg) /\ m.overlay[e] = dlg.overlay[e] /\ m.overlay[e] # Nowhere
      BY <1>4, <1>6 DEF Overlaid
    <3>2. m.overlay[e] \in Int /\ m.z[e] \in Int /\ dlg.z[e] \in Int
      BY <1>0, <1>4, <3>1 DEF DialogState
    <3>3. dlg.overlay[e] < dlg.z[e] /\ m.z[e] >= dlg.z[e]
      BY <1>0, <1>7, <3>1 DEF OverlaysCounted
    <3> QED BY <3>1, <3>2, <3>3
  <2> QED BY <1>0, <1>5, <1>6, <2>1 DEF OverlaysCounted
<1>9. OverlaysFollow(m, switched)
  BY <1>0, <1>4, <1>6 DEF OverlaysFollow
<1>10. TopFollows(m, d)
  <2>1. \A e \in m.open \ {d} : m.z[e] = dlg.z[e]
    BY <1>3, <1>4 DEF Raised, DialogState
  <2>2. Beside(m, d) = Beside(dlg, d)
    BY <1>4, <2>1 DEF Beside
  <2> QED BY <1>3, <2>2 DEF Raised, TopFollows
<1>11. Range(m.instances) \cup ({d} \cap Dialogs) = m.open /\ IsInjective(m.instances)
  BY <1>0, <1>1, <1>4, <1>5 DEF Tracked
<1>12. CASE m # dlg
  <2>1. dlg' = focusOn(m, d)
    BY <1>1, <1>12
  <2>2. /\ dlg' \in DialogState /\ Tracked(dlg') /\ OverlaysCounted(dlg') /\ OverlaysFollow(dlg', switched)
        /\ TopFollows(dlg', d)
    BY <1>4, <1>8, <1>9, <1>10, <1>11, <2>1, FocusKeeps DEF Focusable
  <2>3. dlg'.focus = d
    BY <1>4, <1>11, <2>1, FocusOnIs DEF Focused, Focusable
  <2> QED BY <1>0, <1>1, <2>2, <2>3 DEF DialogsOK
<1>13. CASE m = dlg
  <2>1. dlg' = dlg
    BY <1>1, <1>13
  <2>2. TopFollows(dlg', d)
    BY <1>10, <1>13, <2>1
  <2> QED BY <1>0, <1>1, <2>1, <2>2 DEF DialogsOK
<1> QED BY <1>12, <1>13

LEMMA CloseKeeps ==
  ASSUME DialogsOK(dlg, top, switched), NEW d \in Dialogs, Close(d)
  PROVE  /\ DialogsOK(dlg, top, switched)'
         /\ switched = {} /\ dlg'.handler /\ ~dlg.isOpening => dlg'.focus # Page
<1> DEFINE s == [dlg EXCEPT !.open = @ \ {d}]
           o == destroyOverlay(s, d)
           c == untrack(o, d)
           t == IF top = d THEN Nowhere ELSE top
<1>0. /\ dlg \in DialogState /\ switched \subseteq Dialogs /\ Tracked(dlg) /\ OverlaysCounted(dlg)
      /\ OverlaysFollow(dlg, switched) /\ TopFollows(dlg, top) /\ top \in Dialogs \cup {Nowhere}
  BY DEF DialogsOK
<1>1. d \in dlg.open /\ top' = t /\ switched' = switched
  BY DEF Close
<1>2. dlg' = IF dlg.opener[d] = Page \/ dlg.opener[d] \in dlg.open \ {d} THEN focusOn(c, dlg.opener[d])
             ELSE [c EXCEPT !.focus = Nowhere]
  BY DEF Close
<1>3. s \in DialogState
  BY <1>0 DEF DialogState
<1>4. /\ s.open = dlg.open \ {d} /\ s.modal = dlg.modal /\ s.z = dlg.z /\ s.overlay = dlg.overlay
      /\ s.overlays = dlg.overlays /\ s.handler = dlg.handler /\ s.instances = dlg.instances
      /\ s.isOpening = dlg.isOpening
  BY <1>0 DEF DialogState
<1> HIDE DEF s
<1>5. Overlaid(s) = Overlaid(dlg)
  BY <1>4 DEF Overlaid
<1>6. OverlaysCounted(s)
  BY <1>0, <1>4, <1>5 DEF OverlaysCounted
<1>7. Lowered(s, o, d)
  BY <1>3, <1>6, DestroyOverlayIs
<1> HIDE DEF o
<1>8. o \in DialogState /\ IsInjective(o.instances)
  BY <1>0, <1>4, <1>7 DEF Lowered, Tracked
<1>9. /\ c \in DialogState /\ SameDialogs(o, c) /\ c.opener = o.opener
      /\ c.isOpening = o.isOpening /\ c.focus = o.focus
      /\ IsInjective(c.instances) /\ Range(c.instances) = Range(o.instances) \ {d}
  BY <1>8, UntrackIs
<1> HIDE DEF c
<1>10. c.open = dlg.open \ {d} /\ c.modal = dlg.modal /\ c.z = dlg.z
  BY <1>4, <1>7, <1>9 DEF Lowered, SameDialogs
<1>11. Overlaid(c) = Overlaid(dlg) \ ({d} \cap dlg.modal)
  BY <1>4, <1>5, <1>7, <1>9 DEF Lowered, SameDialogs, Overlaid
<1>12. \A e \in Overlaid(c) : c.overlay[e] = dlg.overlay[e]
  <2>1. Overlaid(c) = Overlaid(o) /\ c.overlay = o.overlay
    BY <1>9 DEF SameDialogs, Overlaid
  <2> QED BY <1>4, <1>7, <2>1 DEF Lowered
<1>13. Tracked(c)
  BY <1>0, <1>4, <1>7, <1>9, <1>10 DEF Tracked, Lowered
<1>14. OverlaysCounted(c)
  <2>1. Overlaid(c) = Overlaid(o)
    BY <1>9 DEF SameDialogs, Overlaid
  <2> QED BY <1>7, <1>9, <2>1 DEF Lowered, SameDialogs, OverlaysCounted
<1>15. OverlaysFollow(c, switched)
  <2> SUFFICES ASSUME NEW e \in Dialogs \ switched PROVE e \in Overlaid(c) <=> e \in c.open \cap c.modal
    BY DEF OverlaysFollow
  <2>1. e \in Overlaid(dlg) <=> e \in dlg.open \cap dlg.modal
    BY <1>0 DEF OverlaysFollow
  <2> QED BY <1>10, <1>11, <2>1
<1>16. TopFollows(c, t)
  <2> SUFFICES ASSUME t # Nowhere PROVE \A z \in Beside(c, t) : z < c.z[t]
    BY DEF TopFollows
  <2>1. t = top
    OBVIOUS
  <2>2. Beside(c, t) \subseteq Beside(dlg, top)
    <3>1. \A e \in Dialogs : c.overlay[e] # Nowhere => c.overlay[e] = dlg.overlay[e] /\ dlg.overlay[e] # Nowhere
      BY <1>11, <1>12 DEF Overlaid
    <3> QED BY <1>10, <2>1, <3>1 DEF Beside
  <2> QED BY <1>0, <1>10, <2>1, <2>2 DEF TopFollows
<1>17. t \in Dialogs \cup {Nowhere}
  BY <1>0
<1>18. ~dlg.isOpening => ~c.isOpening
  BY <1>4, <1>7, <1>9 DEF Lowered
<1>19. CASE dlg.opener[d] = Page \/ dlg.opener[d] \in dlg.open \ {d}
  <2> DEFINE e == dlg.opener[d]
  <2>1. dlg' = focusOn(c, e)
    BY <1>2, <1>19
  <2>2. e \in Focusable
    BY <1>0 DEF DialogState
  <2>3. Range(c.instances) \cup ({e} \cap Dialogs) = c.open /\ IsInjective(c.instances)
    BY <1>10, <1>13, <1>19, DialogAssumption DEF Tracked
  <2>6. e \notin Dialogs \/ e # Page
    BY DialogAssumption
  <2> HIDE DEF e
  <2>4. /\ dlg' \in DialogState /\ Tracked(dlg') /\ OverlaysCounted(dlg') /\ OverlaysFollow(dlg', switched)
        /\ TopFollows(dlg', t)
    BY <1>9, <1>14, <1>15, <1>16, <2>1, <2>2, <2>3, FocusKeeps
  <2>5. ASSUME switched = {}, dlg'.handler, ~dlg.isOpening PROVE dlg'.focus # Page
    <3>1. Focused(c, dlg', e)
      BY <1>9, <2>1, <2>2, <2>3, FocusOnIs
    <3>2. c.handler /\ ~c.isOpening
      BY <1>18, <2>5, <3>1 DEF Focused, SameDialogs
    <3>3. Overlaid(c) # {}
      <4>1. c.overlays > 0 /\ c.overlays = Cardinality(Overlaid(c))
        BY <1>14, <3>2 DEF OverlaysCounted
      <4>2. Overlaid(c) = {} => c.overlays = 0
        BY <4>1, FS_EmptySet
      <4> QED BY <4>1, <4>2
    <3>4. c.open # {}
      BY <1>15, <2>5, <3>3 DEF OverlaysFollow, Overlaid
    <3>5. c.instances # <<>>
      BY <1>13, <3>4 DEF Tracked, Range
    <3>6. dlg'.focus \in Dialogs \/ (e \in Dialogs /\ dlg'.focus = e)
      BY <3>1, <3>2, <3>5 DEF Focused
    <3> QED BY <3>6, DialogAssumption
  <2> QED BY <1>0, <1>1, <1>17, <2>4, <2>5 DEF DialogsOK
<1>20. CASE ~(dlg.opener[d] = Page \/ dlg.opener[d] \in dlg.open \ {d})
  <2>1. dlg' = [c EXCEPT !.focus = Nowhere]
    BY <1>2, <1>20
  <2>2. dlg' \in DialogState
    BY <1>9, <2>1 DEF DialogState, Focusable
  <2>3. SameDialogs(c, dlg') /\ dlg'.instances = c.instances /\ dlg'.focus = Nowhere
    BY <1>9, <2>1 DEF DialogState, SameDialogs
  <2>4. Overlaid(dlg') = Overlaid(c)
    BY <2>3 DEF SameDialogs, Overlaid
  <2>5. Tracked(dlg') /\ OverlaysCounted(dlg') /\ OverlaysFollow(dlg', switched)
    BY <1>13, <1>14, <1>15, <2>3, <2>4 DEF SameDialogs, Tracked, OverlaysCounted, OverlaysFollow
  <2>6. TopFollows(dlg', t)
    BY <1>16, <2>3 DEF SameDialogs, TopFollows, Beside
  <2>7. dlg'.focus # Page
    BY <2>3, DialogAssumption
  <2> QED BY <1>0, <1>1, <1>17, <2>2, <2>5, <2>6, <2>7 DEF DialogsOK
<1> QED BY <1>19, <1>20

LEMMA RenewKeeps ==
  ASSUME DialogsOK(dlg, top, switched), NEW d \in Dialogs, NEW modal \in BOOLEAN, Renew(d, modal)
  PROVE  DialogsOK(dlg, top, switched)' /\ (dlg'.focus = Page => dlg.focus = Page)
<1> DEFINE u == untrack(dlg, d)
           g == destroyOverlay(u, d)
           t == IF top = d THEN Nowhere ELSE top
           kind == IF modal THEN g.modal \cup {d} ELSE g.modal \ {d}
           z == [g.z EXCEPT ![d] = BaseZ]
           opener == [g.opener EXCEPT ![d] = Nowhere]
           focus == IF g.focus = d THEN Nowhere ELSE g.focus
<1>0. /\ dlg \in DialogState /\ switched \subseteq Dialogs /\ Tracked(dlg) /\ OverlaysCounted(dlg)
      /\ OverlaysFollow(dlg, switched) /\ TopFollows(dlg, top) /\ top \in Dialogs \cup {Nowhere}
  BY DEF DialogsOK
<1>1. d \notin switched /\ top' = t /\ switched' = switched
  BY DEF Renew
<1>2. dlg' = [g EXCEPT !.open = @ \ {d}, !.z = z, !.opener = opener, !.modal = kind, !.focus = focus]
  BY DEF Renew
<1>3. /\ u \in DialogState /\ SameDialogs(dlg, u) /\ u.opener = dlg.opener
      /\ u.isOpening = dlg.isOpening /\ u.focus = dlg.focus
      /\ IsInjective(u.instances) /\ Range(u.instances) = Range(dlg.instances) \ {d}
  BY <1>0, UntrackIs DEF Tracked
<1> HIDE DEF u
<1>4. Overlaid(u) = Overlaid(dlg)
  BY <1>3 DEF SameDialogs, Overlaid
<1>5. OverlaysCounted(u)
  BY <1>0, <1>3, <1>4 DEF SameDialogs, OverlaysCounted
<1>6. Lowered(u, g, d)
  BY <1>3, <1>5, DestroyOverlayIs
<1> HIDE DEF g
<1>7. /\ g \in DialogState /\ g.open = dlg.open /\ g.modal = dlg.modal /\ g.z = dlg.z
      /\ g.focus = dlg.focus /\ IsInjective(g.instances) /\ Range(g.instances) = dlg.open \ {d}
      /\ OverlaysCounted(g) /\ Overlaid(g) = Overlaid(dlg) \ ({d} \cap dlg.modal)
      /\ \A e \in Overlaid(g) : g.overlay[e] = dlg.overlay[e]
  BY <1>0, <1>3, <1>4, <1>6 DEF Lowered, SameDialogs, Tracked
<1>8. d \notin Overlaid(g)
  BY <1>0, <1>1, <1>7 DEF OverlaysFollow
<1>9. z \in [Dialogs -> 0..MaxZ] /\ \A e \in Dialogs : e # d => z[e] = dlg.z[e]
  BY <1>7, DialogAssumption DEF DialogState, BaseZ
<1>10. opener \in [Dialogs -> Focusable]
  BY <1>7 DEF DialogState, Focusable
<1>11. focus \in Focusable /\ (focus = Page => dlg.focus = Page)
  BY <1>7, DialogAssumption DEF DialogState, Focusable
<1>12. kind \subseteq Dialogs /\ kind \ {d} = dlg.modal \ {d}
  BY <1>7 DEF DialogState
<1> HIDE DEF z, opener, focus, kind
<1>13. dlg' \in DialogState
  BY <1>2, <1>7, <1>9, <1>10, <1>11, <1>12 DEF DialogState
<1>14. dlg'.open = dlg.open \ {d} /\ dlg'.z = z /\ dlg'.modal = kind /\ dlg'.focus = focus
  BY <1>2, <1>7 DEF DialogState
<1>15. dlg'.overlay = g.overlay /\ dlg'.overlays = g.overlays /\ dlg'.handler = g.handler /\ dlg'.instances = g.instances
  BY <1>2, <1>7 DEF DialogState
<1>16. Overlaid(dlg') = Overlaid(g)
  BY <1>15 DEF Overlaid
<1>17. Tracked(dlg')
  BY <1>7, <1>14, <1>15 DEF Tracked
<1>18. OverlaysCounted(dlg')
  <2>1. \A e \in Overlaid(dlg') : dlg'.overlay[e] < dlg'.z[e]
    <3> SUFFICES ASSUME NEW e \in Overlaid(dlg') PROVE dlg'.overlay[e] < dlg'.z[e]
      OBVIOUS
    <3>1. e \in Dialogs /\ e # d /\ e \in Overlaid(g)
      BY <1>8, <1>16 DEF Overlaid
    <3> QED BY <1>7, <1>9, <1>14, <1>15, <3>1 DEF OverlaysCounted
  <2> QED BY <1>7, <1>15, <1>16, <2>1 DEF OverlaysCounted
<1>19. OverlaysFollow(dlg', switched)
  <2> SUFFICES ASSUME NEW e \in Dialogs \ switched PROVE e \in Overlaid(dlg') <=> e \in dlg'.open \cap dlg'.modal
    BY DEF OverlaysFollow
  <2>1. CASE e = d
    BY <1>8, <1>14, <1>16, <2>1
  <2>2. CASE e # d
    BY <1>0, <1>7, <1>12, <1>14, <1>16, <2>2 DEF OverlaysFollow
  <2> QED BY <2>1, <2>2
<1>20. TopFollows(dlg', t)
  <2> SUFFICES ASSUME t # Nowhere PROVE \A v \in Beside(dlg', t) : v < dlg'.z[t]
    BY DEF TopFollows
  <2>1. t = top /\ top \in Dialogs /\ top # d /\ dlg'.z[t] = dlg.z[top]
    BY <1>0, <1>9, <1>14
  <2>2. \A e \in dlg'.open : e \in Dialogs /\ e # d /\ e \in dlg.open /\ dlg'.z[e] = dlg.z[e]
    BY <1>0, <1>9, <1>14 DEF DialogState
  <2>3. \A e \in Dialogs : dlg'.overlay[e] # Nowhere => dlg'.overlay[e] = dlg.overlay[e] /\ dlg.overlay[e] # Nowhere
    BY <1>7, <1>15 DEF Overlaid
  <2>4. Beside(dlg', t) \subseteq Beside(dlg, top)
    BY <2>1, <2>2, <2>3 DEF Beside
  <2> QED BY <1>0, <2>1, <2>4 DEF TopFollows
<1>21. t \in Dialogs \cup {Nowhere}
  BY <1>0
<1> QED BY <1>0, <1>1, <1>11, <1>13, <1>14, <1>17, <1>18, <1>19, <1>20, <1>21 DEF DialogsOK

(* A switched dialog may have lost or kept an overlay: nothing is claimed  *)
(* of it any more.                                                         *)
LEMMA SetModalKeeps ==
  ASSUME DialogsOK(dlg, top, switched), NEW d \in Dialogs, NEW modal \in BOOLEAN, SetModal(d, modal)
  PROVE  DialogsOK(dlg, top, switched)' /\ dlg'.focus = dlg.focus
<1> DEFINE kind == IF modal THEN dlg.modal \cup {d} ELSE dlg.modal \ {d}
           more == IF d \in dlg.open /\ (modal <=> d \notin dlg.modal) THEN switched \cup {d} ELSE switched
<1>0. /\ dlg \in DialogState /\ switched \subseteq Dialogs /\ Tracked(dlg) /\ OverlaysCounted(dlg)
      /\ OverlaysFollow(dlg, switched) /\ TopFollows(dlg, top) /\ top \in Dialogs \cup {Nowhere}
  BY DEF DialogsOK
<1>1. dlg' = [dlg EXCEPT !.modal = kind] /\ switched' = more /\ top' = top
  BY DEF SetModal
<1>2. kind \subseteq Dialogs /\ more \subseteq Dialogs /\ switched \subseteq more
  BY <1>0 DEF DialogState
<1>3. \A e \in Dialogs \ more : e \in dlg.open \cap dlg.modal <=> e \in dlg.open \cap kind
  OBVIOUS
<1> HIDE DEF kind, more
<1>4. dlg' \in DialogState
  BY <1>0, <1>1, <1>2 DEF DialogState
<1>5. dlg'.open = dlg.open /\ dlg'.z = dlg.z /\ dlg'.modal = kind /\ dlg'.focus = dlg.focus
  BY <1>0, <1>1 DEF DialogState
<1>6. dlg'.overlay = dlg.overlay /\ dlg'.overlays = dlg.overlays /\ dlg'.handler = dlg.handler /\ dlg'.instances = dlg.instances
  BY <1>0, <1>1 DEF DialogState
<1>7. Overlaid(dlg') = Overlaid(dlg)
  BY <1>6 DEF Overlaid
<1>8. OverlaysFollow(dlg', more)
  BY <1>0, <1>2, <1>3, <1>5, <1>7 DEF OverlaysFollow
<1>9. Tracked(dlg') /\ OverlaysCounted(dlg') /\ TopFollows(dlg', top)
  BY <1>0, <1>5, <1>6, <1>7 DEF Tracked, OverlaysCounted, TopFollows, Beside
<1> QED BY <1>0, <1>1, <1>2, <1>4, <1>5, <1>8, <1>9 DEF DialogsOK

(* The focus moves: by the user, or back to the dialog of an overlay.      *)
LEMMA FocusStepKeeps ==
  ASSUME DialogsOK(dlg, top, switched), NEW e \in {Page} \cup dlg.open, dlg' = focusOn(dlg, e),
         UNCHANGED <<top, switched>>
  PROVE  /\ DialogsOK(dlg, top, switched)'
         /\ switched = {} /\ dlg.handler /\ ~dlg.isOpening => dlg'.focus # Page
<1>0. /\ dlg \in DialogState /\ switched \subseteq Dialogs /\ Tracked(dlg) /\ OverlaysCounted(dlg)
      /\ OverlaysFollow(dlg, switched) /\ TopFollows(dlg, top) /\ top \in Dialogs \cup {Nowhere}
  BY DEF DialogsOK
<1>1. e \in Focusable /\ Range(dlg.instances) \cup ({e} \cap Dialogs) = dlg.open /\ IsInjective(dlg.instances)
  BY <1>0, DialogAssumption DEF DialogState, Tracked, Focusable
<1>2. /\ dlg' \in DialogState /\ Tracked(dlg') /\ OverlaysCounted(dlg') /\ OverlaysFollow(dlg', switched)
      /\ TopFollows(dlg', top)
  BY <1>0, <1>1, FocusKeeps
<1>3. ASSUME switched = {}, dlg.handler, ~dlg.isOpening PROVE dlg'.focus # Page
  <2>1. Focused(dlg, dlg', e)
    BY <1>0, <1>1, FocusOnIs
  <2>2. Overlaid(dlg) # {}
    <3>1. dlg.overlays > 0 /\ dlg.overlays = Cardinality(Overlaid(dlg))
      BY <1>0, <1>3 DEF OverlaysCounted
    <3>2. Overlaid(dlg) = {} => dlg.overlays = 0
      BY <3>1, FS_EmptySet
    <3> QED BY <3>1, <3>2
  <2>3. dlg.open # {}
    BY <1>0, <1>3, <2>2 DEF OverlaysFollow, Overlaid
  <2>4. dlg.instances # <<>>
    BY <1>0, <2>3 DEF Tracked, Range
  <2>5. dlg'.focus \in Dialogs \/ (e \in Dialogs /\ dlg'.focus = e)
    BY <1>3, <2>1, <2>4 DEF Focused
  <2> QED BY <2>5, DialogAssumption
<1> QED BY <1>0, <1>2, <1>3 DEF DialogsOK

LEMMA OpeningEndsKeeps ==
  ASSUME DialogsOK(dlg, top, switched), OpeningEnds
  PROVE  DialogsOK(dlg, top, switched)' /\ dlg'.focus = dlg.focus
<1>0. /\ dlg \in DialogState /\ switched \subseteq Dialogs /\ Tracked(dlg) /\ OverlaysCounted(dlg)
      /\ OverlaysFollow(dlg, switched) /\ TopFollows(dlg, top) /\ top \in Dialogs \cup {Nowhere}
  BY DEF DialogsOK
<1>1. dlg' = [dlg EXCEPT !.isOpening = FALSE] /\ UNCHANGED <<top, switched>>
  BY DEF OpeningEnds
<1>2. dlg' \in DialogState
  BY <1>0, <1>1 DEF DialogState
<1>3. SameDialogs(dlg, dlg') /\ dlg'.instances = dlg.instances /\ dlg'.focus = dlg.focus
  BY <1>0, <1>1 DEF DialogState, SameDialogs
<1>4. Overlaid(dlg') = Overlaid(dlg)
  BY <1>3 DEF SameDialogs, Overlaid
<1>5. /\ Tracked(dlg') /\ OverlaysCounted(dlg') /\ OverlaysFollow(dlg', switched)
      /\ TopFollows(dlg', top)
  BY <1>0, <1>3, <1>4 DEF SameDialogs, Tracked, OverlaysCounted, OverlaysFollow, TopFollows, Beside
<1> QED BY <1>0, <1>1, <1>2, <1>3, <1>5 DEF DialogsOK

LEMMA RestartKeeps ==
  ASSUME DialogsOK(dlg, top, switched), Restart
  PROVE  DialogsOK(dlg, top, switched)' /\ dlg'.handler = FALSE
<1>0. dlg \in DialogState
  BY DEF DialogsOK
<1>1. DialogInit' /\ dlg'.handler = FALSE
  BY <1>0 DEF Restart, DialogInit, DialogState
<1>2. DialogInit' => DialogsOK(dlg, top, switched)'
  BY DialogsBegin, PTL
<1> QED BY <1>1, <1>2

ModalStep ==
  switched' = {} /\ dlg.handler /\ dlg'.handler /\ ~dlg.isOpening => (dlg'.focus = Page => dlg.focus = Page)

LEMMA DialogStepKeeps ==
  ASSUME DialogsOK(dlg, top, switched), DialogNext
  PROVE  DialogsOK(dlg, top, switched)' /\ ModalStep
<1>1. \A d \in Dialogs : d # Page
  BY DialogAssumption
<1>2. ASSUME NEW d \in Dialogs, Open(d) PROVE DialogsOK(dlg, top, switched)' /\ ModalStep
  BY <1>1, <1>2, OpenKeeps DEF ModalStep
<1>3. ASSUME NEW d \in Dialogs, Close(d) PROVE DialogsOK(dlg, top, switched)' /\ ModalStep
  BY <1>3, CloseKeeps DEF ModalStep, Close
<1>4. ASSUME NEW d \in Dialogs, KeepFocus(d) PROVE DialogsOK(dlg, top, switched)' /\ ModalStep
  BY <1>4, FocusStepKeeps DEF ModalStep, KeepFocus
<1>5. ASSUME NEW d \in Dialogs, NEW b \in BOOLEAN, BringToTop(d, b)
      PROVE  DialogsOK(dlg, top, switched)' /\ ModalStep
  BY <1>1, <1>5, BringToTopKeeps DEF ModalStep
<1>6. ASSUME NEW d \in Dialogs, NEW b \in BOOLEAN, Renew(d, b)
      PROVE  DialogsOK(dlg, top, switched)' /\ ModalStep
  BY <1>6, RenewKeeps DEF ModalStep
<1>7. ASSUME NEW d \in Dialogs, NEW b \in BOOLEAN, SetModal(d, b)
      PROVE  DialogsOK(dlg, top, switched)' /\ ModalStep
  BY <1>7, SetModalKeeps DEF ModalStep
<1>8. ASSUME NEW e \in {Page} \cup Dialogs, MoveFocus(e) PROVE DialogsOK(dlg, top, switched)' /\ ModalStep
  BY <1>8, FocusStepKeeps DEF ModalStep, MoveFocus
<1>9. CASE OpeningEnds
  BY <1>9, OpeningEndsKeeps DEF ModalStep
<1>10. CASE Restart
  BY <1>10, RestartKeeps DEF ModalStep
<1> QED BY <1>2, <1>3, <1>4, <1>5, <1>6, <1>7, <1>8, <1>9, <1>10 DEF DialogNext

LEMMA DialogsHold ==
  DialogsOK(dlg, top, switched) => DialogTypeOK /\ InstancesAreOpen /\ OverlaysOfModal /\ TopIsOnTop
<1> SUFFICES ASSUME DialogsOK(dlg, top, switched)
             PROVE  DialogTypeOK /\ InstancesAreOpen /\ OverlaysOfModal /\ TopIsOnTop
  OBVIOUS
<1>0. /\ dlg \in DialogState /\ Tracked(dlg) /\ OverlaysCounted(dlg)
      /\ OverlaysFollow(dlg, switched) /\ TopFollows(dlg, top)
  BY DEF DialogsOK
<1>1. DialogTypeOK
  <2>1. Cardinality(Overlaid(dlg)) <= Cardinality(Dialogs)
    BY DialogAssumption, FS_Subset DEF Overlaid
  <2>2. Cardinality(Dialogs) \in Nat /\ dlg.overlays \in Nat
    BY <1>0, DialogAssumption, FS_CardinalityType DEF DialogState
  <2>3. dlg.overlays \in 0..Cardinality(Dialogs)
    BY <1>0, <2>1, <2>2 DEF OverlaysCounted
  <2> QED BY <1>0, <2>3 DEF DialogTypeOK, DialogState, Focusable, BaseZ
<1>2. InstancesAreOpen
  BY <1>0 DEF InstancesAreOpen, Tracked
<1>3. OverlaysOfModal
  <2> SUFFICES ASSUME switched = {}
               PROVE  /\ \A d \in Dialogs : dlg.overlay[d] # Nowhere <=> d \in dlg.open \cap dlg.modal
                      /\ \A d \in dlg.open \cap dlg.modal : dlg.overlay[d] < dlg.z[d]
                      /\ dlg.overlays = Cardinality(dlg.open \cap dlg.modal)
                      /\ dlg.handler <=> dlg.overlays > 0
    BY DEF OverlaysOfModal
  <2>1. Overlaid(dlg) = dlg.open \cap dlg.modal
    BY <1>0 DEF OverlaysFollow, Overlaid, DialogState
  <2> QED BY <1>0, <2>1 DEF OverlaysCounted, Overlaid
<1>4. TopIsOnTop
  BY <1>0 DEF TopIsOnTop, TopFollows
<1> QED BY <1>1, <1>2, <1>3, <1>4

-------------------------------------------------------------------------------
(* Menus.                                                                  *)

(* The tree of the menus. *)
LEMMA ParentsAre ==
  ASSUME NEW i \in Items
  PROVE  /\ ParentOf[i] \in Parents[i]
         /\ Parents[i] \subseteq {Root} \cup Items
         /\ \A j \in Items : j \in Parents[i] => ParentOf[j] \in Parents[i]
         /\ i \notin Parents[i]
<1>1. \A m \in {Root} \cup Items :
        m \in Parents[i] <=> \A A \in SUBSET ({Root} \cup Items) :
          ParentOf[i] \in A /\ (\A j \in A \cap Items : ParentOf[j] \in A) => m \in A
  BY DEF Parents
<1>2. Parents[i] \subseteq {Root} \cup Items
  BY DEF Parents
<1>3. ParentOf[i] \in {Root} \cup Items /\ i \notin Parents[i]
  BY MenuAssumption
<1>4. ParentOf[i] \in Parents[i]
  BY <1>1, <1>3
<1>5. ASSUME NEW j \in Items, j \in Parents[i] PROVE ParentOf[j] \in Parents[i]
  <2>1. ParentOf[j] \in {Root} \cup Items
    BY MenuAssumption
  <2>2. ASSUME NEW A \in SUBSET ({Root} \cup Items), ParentOf[i] \in A,
               \A k \in A \cap Items : ParentOf[k] \in A
        PROVE  ParentOf[j] \in A
    <3>1. j \in A
      BY <1>1, <1>5, <2>2
    <3> QED BY <2>2, <3>1
  <2> QED BY <1>1, <2>1, <2>2
<1> QED BY <1>2, <1>3, <1>4, <1>5

(* What is around the menu of an item is around the item. *)
LEMMA AroundParent ==
  ASSUME NEW i \in Items, NEW j \in Items, j \in Parents[i]
  PROVE  Parents[j] \subseteq Parents[i]
<1>1. SUFFICES ASSUME NEW m \in Parents[j] PROVE m \in Parents[i]
  OBVIOUS
<1>2. m \in {Root} \cup Items
  BY ParentsAre
<1>3. ASSUME NEW A \in SUBSET ({Root} \cup Items), ParentOf[i] \in A,
             \A k \in A \cap Items : ParentOf[k] \in A
      PROVE  m \in A
  <2>1. j \in A
    BY <1>3 DEF Parents
  <2>2. ParentOf[j] \in A
    BY <1>3, <2>1
  <2> QED BY <1>1, <1>3, <2>2 DEF Parents
<1> QED BY <1>2, <1>3 DEF Parents

LEMMA SubmenusAre ==
  /\ Submenus \subseteq Items
  /\ \A i \in Items : ParentOf[i] \in {Root} \cup Submenus
<1>1. Submenus \subseteq Items
  BY DEF Submenus
<1>2. ASSUME NEW i \in Items PROVE ParentOf[i] \in {Root} \cup Submenus
  <2>1. ParentOf[i] \in {Root} \cup Items
    BY MenuAssumption
  <2>2. i \in Under(ParentOf[i])
    BY DEF Under
  <2> QED BY <2>1, <2>2 DEF Submenus
<1> QED BY <1>1, <1>2

Timers ==
  [do : {"close"}, menu : {Root}] \cup [do : {"open"}, menu : Submenus]
    \cup [do : {"collapse"}, menu : {Root} \cup Submenus]

MenuState ==
  [active : {NoItem} \cup Items, activeMenu : {Root} \cup Submenus, open : SUBSET Submenus,
   timer : {NoTimer} \cup Timers, orphans : SUBSET Timers, expanding : {NoItem} \cup Items,
   typing : BOOLEAN, late : BOOLEAN]

Shown(menus) == {Root} \cup menus
(* The open submenus lie within each other, each hangs on one that is open, *)
(* and the active item, or the menu without one, can be seen.              *)
PathOf(s) == \A m, n \in s.open : m = n \/ m \in Parents[n] \/ n \in Parents[m]
Rooted(s) == \A m \in s.open : ParentOf[m] \in Shown(s.open)
ActiveShown(s) ==
  IF s.active = NoItem THEN s.activeMenu \in Shown(s.open) ELSE ParentOf[s.active] \in Shown(s.open)

(* What the timer is about to do still makes sense: it opens the submenu   *)
(* of the active item, closes below it, or collapses a menu that is open.  *)
TimerFollows(s) ==
  /\ s.timer.do = "open" => s.timer.menu = s.active
  /\ s.timer.do = "close" => s.active # NoItem
  /\ s.timer.do = "collapse" => s.timer.menu \in Shown(s.open)

MenuOK(s) ==
  /\ s \in MenuState /\ PathOf(s)
  /\ ~s.late => Rooted(s) /\ ActiveShown(s) /\ TimerFollows(s)

LEMMA MenuBegins == MenuInit => MenuOK(menu)
<1> SUFFICES ASSUME MenuInit PROVE MenuOK(menu)
  OBVIOUS
<1>1. menu \in MenuState
  BY DEF MenuInit, MenuState
<1>2. menu.open = {} /\ menu.active = NoItem /\ menu.activeMenu = Root /\ menu.timer = NoTimer
  BY DEF MenuInit
<1> QED BY <1>1, <1>2 DEF MenuOK, PathOf, Rooted, ActiveShown, TimerFollows, Shown, NoTimer

(* Closing what is inside a menu that is shown keeps that menu shown. *)
LEMMA CloseIs ==
  ASSUME NEW s \in MenuState, NEW m \in {Root} \cup Submenus
  PROVE  LET t == close(s, m)
         IN  /\ t \in MenuState /\ t = [s EXCEPT !.open = t.open] /\ t.open \subseteq s.open
             /\ PathOf(s) => PathOf(t)
             /\ Rooted(s) => Rooted(t)
             /\ m \in Shown(s.open) => m \in Shown(t.open)
             /\ m # Root /\ ParentOf[m] \in Shown(s.open) => ParentOf[m] \in Shown(t.open)
<1> DEFINE t == close(s, m)
           o == s.open \ FoundIn(m)
<1>1. s.open \subseteq Submenus
  BY DEF MenuState
<1>2. t = [s EXCEPT !.open = o]
  BY DEF close
<1>3. o \subseteq s.open /\ \A i \in s.open : i \in o <=> m \notin Parents[i]
  BY <1>1 DEF FoundIn
<1> HIDE DEF o, t
<1>4. t \in MenuState /\ t.open = o
  BY <1>1, <1>2, <1>3 DEF MenuState
<1>5. PathOf(s) => PathOf(t)
  BY <1>3, <1>4 DEF PathOf
<1>6. ASSUME Rooted(s), NEW i \in o PROVE ParentOf[i] \in Shown(o)
  <2>1. i \in Items /\ i \in s.open /\ m \notin Parents[i]
    BY <1>1, <1>3, SubmenusAre
  <2>2. ParentOf[i] = Root \/ ParentOf[i] \in s.open
    BY <1>6, <2>1 DEF Rooted, Shown
  <2>3. CASE ParentOf[i] \in s.open
    <3>1. ParentOf[i] \in Items /\ ParentOf[i] \in Parents[i]
      BY <1>1, <2>1, <2>3, SubmenusAre, ParentsAre
    <3>2. Parents[ParentOf[i]] \subseteq Parents[i]
      BY <2>1, <3>1, AroundParent
    <3> QED BY <1>3, <2>1, <2>3, <3>2 DEF Shown
  <2> QED BY <2>2, <2>3 DEF Shown
<1>7. Rooted(s) => Rooted(t)
  BY <1>4, <1>6 DEF Rooted
<1>8. ASSUME m \in Shown(s.open) PROVE m \in Shown(o)
  <2>1. m \in Items => m \notin Parents[m]
    BY ParentsAre
  <2> QED BY <1>1, <1>3, <1>8, <2>1, SubmenusAre DEF Shown
<1>9. ASSUME m # Root, ParentOf[m] \in Shown(s.open) PROVE ParentOf[m] \in Shown(o)
  <2>1. m \in Items
    BY <1>9, SubmenusAre
  <2>2. CASE ParentOf[m] \in s.open
    <3>1. ParentOf[m] \in Items /\ ParentOf[m] \in Parents[m]
      BY <1>1, <2>1, <2>2, SubmenusAre, ParentsAre
    <3>2. Parents[ParentOf[m]] \subseteq Parents[m] /\ m \notin Parents[m]
      BY <2>1, <3>1, AroundParent, ParentsAre
    <3> QED BY <1>3, <2>2, <3>2 DEF Shown
  <2> QED BY <1>9, <2>2 DEF Shown
<1> QED BY <1>2, <1>3, <1>4, <1>5, <1>7, <1>8, <1>9 DEF t

(* Opening a submenu that is shown closes those beside it. *)
LEMMA OpenMenuIs ==
  ASSUME NEW s \in MenuState, NEW m \in Submenus
  PROVE  LET t == openMenu(s, m)
         IN  /\ t \in MenuState /\ t.timer = NoTimer /\ t.active = s.active /\ t.late = s.late
             /\ PathOf(s) => PathOf(t)
             /\ Rooted(s) /\ ParentOf[m] \in Shown(s.open) => Rooted(t) /\ ParentOf[m] \in Shown(t.open)
<1> DEFINE t == openMenu(s, m)
           o == (s.open \cap Parents[m]) \cup {m}
<1>1. s.open \subseteq Submenus /\ m \in Items
  BY SubmenusAre DEF MenuState
<1>2. t = [s EXCEPT !.timer = NoTimer, !.open = o]
  BY DEF openMenu
<1>3. o \subseteq Submenus
  BY <1>1
<1>4. \A i : i \in o <=> i = m \/ (i \in s.open /\ i \in Parents[m])
  OBVIOUS
<1> HIDE DEF o, t
<1>5. t \in MenuState
  BY <1>2, <1>3 DEF MenuState
<1>6. t.open = o /\ t.timer = NoTimer /\ t.active = s.active /\ t.late = s.late
  BY <1>2 DEF MenuState
<1>7. PathOf(s) => PathOf(t)
  BY <1>4, <1>6 DEF PathOf
<1>8. ASSUME Rooted(s), ParentOf[m] \in Shown(s.open)
      PROVE  Rooted(t) /\ ParentOf[m] \in Shown(o)
  <2>1. ParentOf[m] \in Shown(o)
    BY <1>1, <1>4, <1>8, ParentsAre DEF Shown
  <2>2. ASSUME NEW i \in o PROVE ParentOf[i] \in Shown(o)
    <3>1. CASE i = m
      BY <2>1, <3>1
    <3>2. CASE i \in s.open /\ i \in Parents[m]
      <4>1. i \in Items
        BY <1>1, <3>2, SubmenusAre
      <4>2. ParentOf[i] \in Parents[m]
        BY <1>1, <3>2, <4>1, ParentsAre
      <4>3. ParentOf[i] \in Shown(s.open)
        BY <1>8, <3>2 DEF Rooted
      <4> QED BY <1>4, <4>2, <4>3 DEF Shown
    <3> QED BY <1>4, <3>1, <3>2
  <2> QED BY <1>6, <2>1, <2>2 DEF Rooted
<1> QED BY <1>5, <1>6, <1>7, <1>8 DEF t

SameOpen(s, t) ==
  /\ t \in MenuState /\ t.open = s.open /\ t.late = s.late

LEMMA DelayIs ==
  ASSUME NEW s \in MenuState, NEW do, NEW m, [do |-> do, menu |-> m] \in Timers
  PROVE  LET t == delay(s, do, m)
         IN  /\ SameOpen(s, t) /\ t.active = s.active /\ t.activeMenu = s.activeMenu
             /\ t.timer = [do |-> do, menu |-> m]
<1> DEFINE t == delay(s, do, m)
           k == [do |-> do, menu |-> m]
           o == IF s.timer = NoTimer THEN s.orphans ELSE s.orphans \cup {s.timer}
<1>1. t = [s EXCEPT !.timer = k, !.orphans = o]
  BY DEF delay
<1>2. o \subseteq Timers
  BY DEF MenuState
<1> HIDE DEF k, o, t
<1>3. t \in MenuState
  BY <1>1, <1>2 DEF MenuState, k
<1>4. t.timer = k /\ t.open = s.open /\ t.late = s.late /\ t.active = s.active /\ t.activeMenu = s.activeMenu
  BY <1>1 DEF MenuState
<1> QED BY <1>3, <1>4 DEF SameOpen, k, t

LEMMA ClearTimerIs ==
  ASSUME NEW s \in MenuState
  PROVE  LET t == clearTimer(s)
         IN  /\ SameOpen(s, t) /\ t.active = s.active /\ t.activeMenu = s.activeMenu
             /\ t.timer = NoTimer
<1>1. clearTimer(s) \in MenuState
  BY DEF clearTimer, MenuState
<1> QED BY <1>1 DEF clearTimer, SameOpen, MenuState

LEMMA BlurIs ==
  ASSUME NEW s \in MenuState, NEW b \in BOOLEAN
  PROVE  LET t == blur(s, b)
         IN  /\ SameOpen(s, t) /\ t.active = NoItem /\ t.activeMenu = s.activeMenu
             /\ t.timer = IF b THEN s.timer ELSE NoTimer
<1>1. blur(s, b) \in MenuState
  BY DEF blur, MenuState
<1> QED BY <1>1 DEF blur, SameOpen, MenuState

LEMMA CloseBelowIs ==
  ASSUME NEW s \in MenuState
  PROVE  LET t == closeBelowActive(s)
         IN  /\ t \in MenuState /\ t = [s EXCEPT !.open = t.open] /\ t.open \subseteq s.open
             /\ PathOf(s) => PathOf(t)
             /\ Rooted(s) => Rooted(t)
             /\ s.active # NoItem /\ ParentOf[s.active] \in Shown(s.open) => ParentOf[s.active] \in Shown(t.open)
             /\ s.active \in Items /\ ParentOf[s.active] # Root /\ ParentOf[ParentOf[s.active]] \in Shown(s.open)
                  => ParentOf[ParentOf[s.active]] \in Shown(t.open)
<1> DEFINE m == IF s.active = NoItem THEN Root ELSE ParentOf[s.active]
<1>1. m \in {Root} \cup Submenus
  BY SubmenusAre DEF MenuState, NoItem, Root
<1>2. closeBelowActive(s) = close(s, m)
  BY DEF closeBelowActive
<1>3. s.active # NoItem => m = ParentOf[s.active]
  OBVIOUS
<1>4. s.active \in Items => s.active # NoItem
  BY MenuAssumption DEF NoItem, Root
<1> HIDE DEF m
<1> QED BY <1>1, <1>2, <1>3, <1>4, CloseIs

(* The item that gets the focus must be shown. *)
LEMMA FocusItemIs ==
  ASSUME NEW s \in MenuState, PathOf(s), NEW item \in Items, NEW type \in {"keydown", "mouse", "focus"}
  PROVE  LET t == focusItem(s, item, type)
         IN  /\ t \in MenuState /\ PathOf(t) /\ t.late = s.late
             /\ Rooted(s) /\ ParentOf[item] \in Shown(s.open) => Rooted(t) /\ ActiveShown(t) /\ TimerFollows(t)
<1> DEFINE b == blur(s, type = "focus")
           a == [b EXCEPT !.active = item]
           c == IF type = "keydown" THEN closeBelowActive(a) ELSE delay(a, "close", Root)
           o == IF type = "mouse" /\ item \in Submenus
                  THEN IF item \in s.open THEN clearTimer(c) ELSE delay(clearTimer(c), "open", item)
                  ELSE c
           t == focusItem(s, item, type)
<1>1. t = [o EXCEPT !.activeMenu = ParentOf[item]]
  BY DEF focusItem
<1>0. item # NoItem
  BY MenuAssumption DEF NoItem, Root
<1>2. SameOpen(s, b) /\ b.timer = IF type = "focus" THEN s.timer ELSE NoTimer
  BY BlurIs
<1> HIDE DEF b
<1>3. SameOpen(s, a) /\ a.active = item /\ a.timer = b.timer
  BY <1>2 DEF SameOpen, MenuState
<1> HIDE DEF a
<1>4. /\ c \in MenuState /\ PathOf(c) /\ c.late = s.late /\ c.active = item
      /\ Rooted(s) /\ ParentOf[item] \in Shown(s.open) => Rooted(c) /\ ParentOf[item] \in Shown(c.open)
      /\ c.timer.do \in {"nothing", "close"}
  <2>1. CASE type = "keydown"
    <3>1. c = closeBelowActive(a)
      BY <2>1
    <3> HIDE DEF c
    <3>2. PathOf(a) /\ (Rooted(s) => Rooted(a)) /\ a \in MenuState
      BY <1>3 DEF SameOpen, PathOf, Rooted
    <3>3. /\ c \in MenuState /\ c = [a EXCEPT !.open = c.open] /\ PathOf(c)
          /\ Rooted(a) => Rooted(c)
          /\ ParentOf[item] \in Shown(a.open) => ParentOf[item] \in Shown(c.open)
      BY <1>0, <1>3, <3>1, <3>2, CloseBelowIs
    <3>4. c.late = a.late /\ c.active = a.active /\ c.timer = a.timer
      BY <3>2, <3>3 DEF MenuState
    <3>5. a.timer = NoTimer
      BY <1>2, <1>3, <2>1
    <3> QED BY <1>3, <3>2, <3>3, <3>4, <3>5 DEF SameOpen, NoTimer
  <2>2. CASE type # "keydown"
    <3>1. c = delay(a, "close", Root)
      BY <2>2
    <3> HIDE DEF c
    <3>2. a \in MenuState /\ [do |-> "close", menu |-> Root] \in Timers
      BY <1>3 DEF SameOpen, Timers
    <3>3. SameOpen(a, c) /\ c.active = a.active /\ c.timer = [do |-> "close", menu |-> Root]
      BY <3>1, <3>2, DelayIs
    <3> QED BY <1>3, <3>3 DEF SameOpen, PathOf, Rooted, Shown
  <2> QED BY <2>1, <2>2
<1> HIDE DEF c
<1>5. /\ o \in MenuState /\ o.open = c.open /\ o.late = c.late /\ o.active = item
      /\ o.timer.do \in {"nothing", "close"} \/ o.timer = [do |-> "open", menu |-> item]
  <2>0. SameOpen(c, clearTimer(c)) /\ clearTimer(c).active = item /\ clearTimer(c).timer = NoTimer
    BY <1>4, ClearTimerIs
  <2>1. CASE type = "mouse" /\ item \in Submenus /\ item \in s.open
    BY <2>0, <2>1 DEF SameOpen, NoTimer
  <2>2. CASE type = "mouse" /\ item \in Submenus /\ item \notin s.open
    <3>1. [do |-> "open", menu |-> item] \in Timers
      BY <2>2 DEF Timers
    <3>2. o = delay(clearTimer(c), "open", item)
      BY <2>2
    <3> HIDE DEF o
    <3>3. SameOpen(clearTimer(c), o) /\ o.active = item /\ o.timer = [do |-> "open", menu |-> item]
      BY <2>0, <3>1, <3>2, DelayIs DEF SameOpen
    <3> QED BY <2>0, <3>3 DEF SameOpen
  <2>3. CASE ~(type = "mouse" /\ item \in Submenus)
    BY <1>4, <2>3
  <2> QED BY <2>1, <2>2, <2>3
<1> HIDE DEF o, t
<1>6. ParentOf[item] \in {Root} \cup Submenus
  BY SubmenusAre
<1>7. t \in MenuState
  BY <1>1, <1>5, <1>6 DEF MenuState
<1>8. t.open = o.open /\ t.late = o.late /\ t.active = item /\ t.timer = o.timer
  BY <1>1, <1>5 DEF MenuState
<1>9. PathOf(t) /\ t.late = s.late
  BY <1>4, <1>5, <1>8 DEF PathOf
<1>10. ASSUME Rooted(s), ParentOf[item] \in Shown(s.open)
       PROVE  Rooted(t) /\ ActiveShown(t) /\ TimerFollows(t)
  <2>1. Rooted(c) /\ ParentOf[item] \in Shown(c.open)
    BY <1>4, <1>10
  <2>2. Rooted(t)
    BY <1>5, <1>8, <2>1 DEF Rooted
  <2>3. ActiveShown(t)
    BY <1>0, <1>5, <1>8, <2>1 DEF ActiveShown
  <2>4. TimerFollows(t)
    BY <1>0, <1>5, <1>8 DEF TimerFollows
  <2> QED BY <2>2, <2>3, <2>4
<1> QED BY <1>7, <1>9, <1>10 DEF t

LEMMA CollapseAllIs ==
  ASSUME NEW s, MenuOK(s), NEW m \in {Root} \cup Submenus
  PROVE  LET t == collapseAll(s, m)
         IN  /\ t \in MenuState /\ PathOf(t) /\ t.late = s.late
             /\ ~s.late /\ m \in Shown(s.open) => Rooted(t) /\ ActiveShown(t) /\ TimerFollows(t)
<1> DEFINE c == clearTimer(s)
           t == collapseAll(s, m)
<1>1. s \in MenuState /\ PathOf(s) /\ (~s.late => Rooted(s) /\ ActiveShown(s))
  BY DEF MenuOK
<1>2. SameOpen(s, c) /\ c.active = s.active /\ c.activeMenu = s.activeMenu
  BY <1>1, ClearTimerIs
<1>3. t = delay(c, "collapse", m)
  BY DEF collapseAll
<1>4. [do |-> "collapse", menu |-> m] \in Timers
  BY DEF Timers
<1> HIDE DEF c, t
<1>5. SameOpen(c, t) /\ t.active = c.active /\ t.activeMenu = c.activeMenu /\ t.timer = [do |-> "collapse", menu |-> m]
  BY <1>2, <1>3, <1>4, DelayIs DEF SameOpen
<1>6. t \in MenuState /\ t.open = s.open /\ t.late = s.late /\ t.active = s.active /\ t.activeMenu = s.activeMenu
  BY <1>2, <1>5 DEF SameOpen
<1>7. PathOf(t)
  BY <1>1, <1>6 DEF PathOf
<1>8. ASSUME ~s.late, m \in Shown(s.open) PROVE Rooted(t) /\ ActiveShown(t) /\ TimerFollows(t)
  BY <1>1, <1>5, <1>6, <1>8 DEF Rooted, ActiveShown, TimerFollows
<1> QED BY <1>6, <1>7, <1>8 DEF t

(* What a timer does, if nobody forgot it. *)
LEMMA FiredIs ==
  ASSUME NEW s \in MenuState, PathOf(s), NEW k \in Timers
  PROVE  LET t == fired(s, k)
         IN  /\ t \in MenuState /\ PathOf(t) /\ t.late = s.late
             /\ /\ Rooted(s) /\ ActiveShown(s) /\ s.timer = NoTimer
                /\ k.do = "open" => k.menu = s.active
                /\ k.do = "close" => s.active # NoItem
                /\ k.do = "collapse" => k.menu \in Shown(s.open)
                => Rooted(t) /\ ActiveShown(t) /\ TimerFollows(t)
<1> DEFINE t == fired(s, k)
<1>1. CASE k.do = "close"
  <2>1. t = closeBelowActive(s)
    BY <1>1 DEF fired
  <2> HIDE DEF t
  <2>2. /\ t \in MenuState /\ t = [s EXCEPT !.open = t.open] /\ PathOf(t)
        /\ Rooted(s) => Rooted(t)
        /\ s.active # NoItem /\ ParentOf[s.active] \in Shown(s.open) => ParentOf[s.active] \in Shown(t.open)
    BY <2>1, CloseBelowIs
  <2>3. t.active = s.active /\ t.late = s.late /\ t.timer = s.timer
    BY <2>2 DEF MenuState
  <2>4. ASSUME Rooted(s), ActiveShown(s), s.timer = NoTimer, s.active # NoItem
        PROVE  Rooted(t) /\ ActiveShown(t) /\ TimerFollows(t)
    BY <2>2, <2>3, <2>4 DEF ActiveShown, TimerFollows, NoTimer
  <2> QED BY <1>1, <2>2, <2>3, <2>4 DEF t
<1>2. CASE k.do = "open"
  <2> DEFINE b == closeBelowActive(s)
  <2>0. k.menu \in Submenus
    BY <1>2 DEF Timers
  <2>1. t = openMenu(b, k.menu)
    BY <1>2 DEF fired
  <2> HIDE DEF t
  <2>2. /\ b \in MenuState /\ b = [s EXCEPT !.open = b.open] /\ PathOf(b)
        /\ Rooted(s) => Rooted(b)
        /\ s.active # NoItem /\ ParentOf[s.active] \in Shown(s.open) => ParentOf[s.active] \in Shown(b.open)
    BY CloseBelowIs
  <2> HIDE DEF b
  <2>3. b.active = s.active /\ b.late = s.late
    BY <2>2 DEF MenuState
  <2>4. /\ t \in MenuState /\ t.timer = NoTimer /\ t.active = b.active /\ t.late = b.late /\ PathOf(t)
        /\ Rooted(b) /\ ParentOf[k.menu] \in Shown(b.open) => Rooted(t) /\ ParentOf[k.menu] \in Shown(t.open)
    BY <2>0, <2>1, <2>2, OpenMenuIs
  <2>5. ASSUME Rooted(s), ActiveShown(s), k.menu = s.active
        PROVE  Rooted(t) /\ ActiveShown(t) /\ TimerFollows(t)
    <3>1. s.active # NoItem
      BY <2>0, <2>5, SubmenusAre, MenuAssumption DEF NoItem, Root
    <3>2. ParentOf[k.menu] \in Shown(b.open) /\ Rooted(b)
      BY <2>2, <2>5, <3>1 DEF ActiveShown
    <3> QED BY <2>3, <2>4, <2>5, <3>1, <3>2 DEF ActiveShown, TimerFollows, NoTimer
  <2> QED BY <1>2, <2>3, <2>4, <2>5 DEF t
<1>3. CASE k.do = "collapse"
  <2> DEFINE c == close(s, k.menu)
             b == blur(c, FALSE)
  <2>0. k.menu \in {Root} \cup Submenus
    BY <1>3 DEF Timers
  <2>1. t = [b EXCEPT !.activeMenu = k.menu]
    BY <1>3 DEF fired
  <2> HIDE DEF t
  <2>2. /\ c \in MenuState /\ c = [s EXCEPT !.open = c.open] /\ PathOf(c)
        /\ Rooted(s) => Rooted(c)
        /\ k.menu \in Shown(s.open) => k.menu \in Shown(c.open)
    BY <2>0, CloseIs
  <2> HIDE DEF c
  <2>3. c.late = s.late
    BY <2>2 DEF MenuState
  <2>4. SameOpen(c, b) /\ b.active = NoItem /\ b.timer = NoTimer
    BY <2>2, BlurIs
  <2> HIDE DEF b
  <2>5. t \in MenuState
    BY <2>0, <2>1, <2>4 DEF MenuState, SameOpen
  <2>6. t.open = c.open /\ t.late = s.late /\ t.active = NoItem /\ t.timer = NoTimer /\ t.activeMenu = k.menu
    BY <2>1, <2>3, <2>4 DEF MenuState, SameOpen
  <2>7. PathOf(t)
    BY <2>2, <2>6 DEF PathOf
  <2>8. ASSUME Rooted(s), k.menu \in Shown(s.open)
        PROVE  Rooted(t) /\ ActiveShown(t) /\ TimerFollows(t)
    BY <2>2, <2>6, <2>8 DEF Rooted, ActiveShown, TimerFollows, NoTimer
  <2> QED BY <1>3, <2>5, <2>6, <2>7, <2>8 DEF t
<1>4. k.do \in {"close", "open", "collapse"}
  BY DEF Timers
<1> QED BY <1>1, <1>2, <1>3, <1>4

LEMMA ExpandIs ==
  ASSUME NEW s, MenuOK(s)
  PROVE  MenuOK(expand(s))
<1>1. s \in MenuState /\ PathOf(s) /\ (~s.late => Rooted(s) /\ ActiveShown(s))
  BY DEF MenuOK
<1>2. CASE s.active \notin Submenus
  BY <1>2 DEF expand
<1>3. CASE s.active \in Submenus
  <2> DEFINE o == openMenu(s, s.active)
             e == CHOOSE i \in Under(s.active) : TRUE
             t == expand(s)
  <2>1. t = [o EXCEPT !.expanding = e]
    BY <1>3 DEF expand
  <2>2. e \in Items
    BY <1>3 DEF Submenus, Under
  <2> HIDE DEF e, t
  <2>3. /\ o \in MenuState /\ o.timer = NoTimer /\ o.active = s.active /\ o.late = s.late
        /\ PathOf(o)
        /\ Rooted(s) /\ ParentOf[s.active] \in Shown(s.open) => Rooted(o) /\ ParentOf[s.active] \in Shown(o.open)
    BY <1>1, <1>3, OpenMenuIs
  <2> HIDE DEF o
  <2>4. t \in MenuState
    BY <2>1, <2>2, <2>3 DEF MenuState
  <2>5. t.open = o.open /\ t.late = s.late /\ t.active = s.active /\ t.timer = NoTimer
    BY <2>1, <2>3 DEF MenuState
  <2>6. PathOf(t)
    BY <2>3, <2>5 DEF PathOf
  <2>7. ASSUME ~s.late PROVE Rooted(t) /\ ActiveShown(t) /\ TimerFollows(t)
    <3>1. s.active # NoItem
      BY <1>3, SubmenusAre, MenuAssumption DEF NoItem, Root
    <3>2. Rooted(o) /\ ParentOf[s.active] \in Shown(o.open)
      BY <1>1, <2>3, <2>7, <3>1 DEF ActiveShown
    <3> QED BY <2>5, <3>1, <3>2 DEF Rooted, ActiveShown, TimerFollows, NoTimer
  <2> QED BY <2>4, <2>5, <2>6, <2>7 DEF MenuOK, t
<1> QED BY <1>2, <1>3

LEMMA SelectEntryIs ==
  ASSUME NEW s, MenuOK(s)
  PROVE  MenuOK(selectEntry(s))
<1>1. CASE s.active \in Submenus
  BY <1>1 DEF selectEntry
<1>2. CASE s.active \notin Submenus
  <2>1. selectEntry(s) = collapseAll(s, Root)
    BY <1>2 DEF selectEntry
  <2> QED BY <2>1, CollapseAllIs DEF MenuOK, Shown
<1> QED BY <1>1, <1>2

-------------------------------------------------------------------------------

LEMMA VisibleIs ==
  ASSUME NEW i \in Items PROVE i \in Visible <=> ParentOf[i] \in Shown(menu.open)
BY DEF Visible, Shown

LEMMA MouseOnKeeps ==
  ASSUME MenuOK(menu), NEW i \in Items, MouseOn(i) PROVE MenuOK(menu')
<1>1. menu' = IF menu.typing THEN menu ELSE focusItem(menu, i, "mouse")
  BY DEF MouseOn
<1>2. ParentOf[i] \in Shown(menu.open)
  BY VisibleIs DEF MouseOn
<1> QED BY <1>1, <1>2, FocusItemIs DEF MenuOK

LEMMA ClickItemKeeps ==
  ASSUME MenuOK(menu), NEW i \in Items, ClickItem(i) PROVE MenuOK(menu')
<1> DEFINE a == IF menu.active = NoItem THEN [menu EXCEPT !.active = i] ELSE menu
           b == selectEntry(a)
<1>1. menu' = IF i \in Submenus THEN expand(b) ELSE b
  BY DEF ClickItem
<1>2. ParentOf[i] \in Shown(menu.open) /\ i # NoItem
  BY VisibleIs, MenuAssumption DEF ClickItem, NoItem, Root
<1>3. MenuOK(a)
  <2>1. CASE menu.active # NoItem
    BY <2>1
  <2>2. CASE menu.active = NoItem
    <3>1. a = [menu EXCEPT !.active = i] /\ menu \in MenuState
      BY <2>2 DEF MenuOK
    <3> HIDE DEF a
    <3>2. a \in MenuState
      BY <3>1 DEF MenuState
    <3>3. a.active = i /\ a.open = menu.open /\ a.late = menu.late /\ a.timer = menu.timer
      BY <3>1 DEF MenuState
    <3>4. PathOf(a)
      BY <3>3 DEF MenuOK, PathOf
    <3>5. ASSUME ~menu.late PROVE Rooted(a) /\ ActiveShown(a) /\ TimerFollows(a)
      <4>1. Rooted(menu) /\ TimerFollows(menu)
        BY <3>5 DEF MenuOK
      <4>2. menu.timer.do # "open"
        <5>1. menu.timer.do = "open" => menu.timer.menu \in Submenus
          BY <3>1 DEF MenuState, Timers, NoTimer
        <5> QED BY <2>2, <4>1, <5>1, SubmenusAre, MenuAssumption DEF TimerFollows, NoItem, Root
      <4> QED BY <1>2, <3>3, <4>1, <4>2 DEF Rooted, ActiveShown, TimerFollows
    <3> QED BY <3>2, <3>3, <3>4, <3>5 DEF MenuOK
  <2> QED BY <2>1, <2>2
<1> HIDE DEF a
<1>4. MenuOK(b)
  BY <1>3, SelectEntryIs
<1> HIDE DEF b
<1> QED BY <1>1, <1>4, ExpandIs

LEMMA LeaveKeeps ==
  ASSUME MenuOK(menu), NEW m, Leave(m) PROVE MenuOK(menu')
<1>1. m \in Shown(menu.open) /\ menu' = collapseAll(menu, m)
  BY DEF Leave, Shown
<1>2. m \in {Root} \cup Submenus
  BY <1>1 DEF MenuOK, MenuState, Shown
<1> QED BY <1>1, <1>2, CollapseAllIs DEF MenuOK

LEMMA FocusMenuKeeps ==
  ASSUME MenuOK(menu), FocusMenu PROVE MenuOK(menu')
<1>1. PICK first \in Under(Root) : menu' = focusItem(menu, IF menu.active = NoItem THEN first ELSE menu.active, "focus")
  BY DEF FocusMenu
<1> DEFINE i == IF menu.active = NoItem THEN first ELSE menu.active
<1>2. i \in Items
  BY DEF MenuOK, MenuState, Under
<1>3. ~menu.late => ParentOf[i] \in Shown(menu.open)
  BY DEF MenuOK, ActiveShown, Under, Shown
<1> HIDE DEF i
<1>4. menu' = focusItem(menu, i, "focus")
  BY <1>1 DEF i
<1> QED BY <1>2, <1>3, <1>4, FocusItemIs DEF MenuOK

LEMMA TypingIs ==
  ASSUME NEW s, MenuOK(s), NEW b \in BOOLEAN
  PROVE  MenuOK([s EXCEPT !.typing = b])
<1> DEFINE t == [s EXCEPT !.typing = b]
<1>1. s \in MenuState
  BY DEF MenuOK
<1>2. t \in MenuState
  BY <1>1 DEF MenuState
<1>3. t.open = s.open /\ t.late = s.late /\ t.active = s.active /\ t.activeMenu = s.activeMenu /\ t.timer = s.timer
  BY <1>1 DEF MenuState
<1> HIDE DEF t
<1>4. MenuOK(t)
  BY <1>2, <1>3 DEF MenuOK, PathOf, Rooted, ActiveShown, TimerFollows
<1> QED BY <1>4 DEF t

LEMMA MoveKeeps ==
  ASSUME MenuOK(menu), NEW i \in Items, NEW typed \in BOOLEAN, Move(i, typed) PROVE MenuOK(menu')
<1> DEFINE f == focusItem(menu, i, "keydown")
<1>1. menu' = [f EXCEPT !.typing = f.typing \/ typed]
  BY DEF Move
<1>2. ~menu.late => ParentOf[i] \in Shown(menu.open)
  BY DEF MenuOK, ActiveShown, Move
<1>3. MenuOK(f)
  BY <1>2, FocusItemIs DEF MenuOK
<1> HIDE DEF f
<1> QED BY <1>1, <1>3, TypingIs

LEMMA CollapseKeeps ==
  ASSUME MenuOK(menu), Collapse PROVE MenuOK(menu')
<1> DEFINE c == closeBelowActive(menu)
           q == ParentOf[menu.active]
<1>0. menu \in MenuState /\ PathOf(menu) /\ (~menu.late => Rooted(menu) /\ ActiveShown(menu))
  BY DEF MenuOK
<1>1. menu.active \in Items /\ menu.active # NoItem /\ q \in Items /\ q # Root /\ menu' = focusItem(c, q, "keydown")
  BY <1>0, SubmenusAre DEF Collapse, MenuState
<1>2. ~menu.late => ParentOf[q] \in Shown(menu.open)
  <2>1. ASSUME ~menu.late PROVE ParentOf[q] \in Shown(menu.open)
    BY <1>0, <1>1, <2>1 DEF ActiveShown, Rooted, Shown
  <2> QED BY <2>1
<1>3. /\ c \in MenuState /\ c = [menu EXCEPT !.open = c.open] /\ PathOf(c)
      /\ Rooted(menu) => Rooted(c)
      /\ ParentOf[q] \in Shown(menu.open) => ParentOf[q] \in Shown(c.open)
  BY <1>0, <1>1, CloseBelowIs
<1>4. c.late = menu.late
  BY <1>0, <1>3 DEF MenuState
<1> HIDE DEF c, q
<1> QED BY <1>0, <1>1, <1>2, <1>3, <1>4, FocusItemIs DEF MenuOK

LEMMA ExpandedKeeps ==
  ASSUME MenuOK(menu), NEW type \in {"keydown", "mouse"}, Expanded(type) PROVE MenuOK(menu')
<1> DEFINE i == menu.expanding
           lost == menu.late \/ i \notin Visible
           s == [menu EXCEPT !.expanding = NoItem, !.late = lost]
<1>1. menu' = focusItem(s, i, type) /\ i # NoItem
  BY DEF Expanded
<1>2. menu \in MenuState /\ PathOf(menu) /\ (~menu.late => Rooted(menu))
  BY DEF MenuOK
<1>3. i \in Items
  BY <1>1, <1>2 DEF MenuState
<1>4. ~lost => ~menu.late /\ ParentOf[i] \in Shown(menu.open)
  BY <1>3, VisibleIs
<1>5. lost \in BOOLEAN
  OBVIOUS
<1>8. s = [menu EXCEPT !.expanding = NoItem, !.late = lost]
  OBVIOUS
<1> HIDE DEF lost, s
<1>6. s \in MenuState
  BY <1>2, <1>5, <1>8 DEF MenuState
<1>7. s.open = menu.open /\ s.late = lost
  BY <1>2, <1>8 DEF MenuState
<1>9. PathOf(s) /\ (~lost => Rooted(s) /\ ParentOf[i] \in Shown(s.open))
  BY <1>2, <1>4, <1>7 DEF PathOf, Rooted
<1>10. menu'.late = lost
  BY <1>1, <1>3, <1>6, <1>7, <1>9, FocusItemIs
<1> QED BY <1>1, <1>3, <1>6, <1>7, <1>9, FocusItemIs DEF MenuOK

LEMMA TimerDueKeeps ==
  ASSUME MenuOK(menu), TimerDue PROVE MenuOK(menu')
<1> DEFINE c == clearTimer(menu)
           k == menu.timer
<1>1. menu' = fired(c, k) /\ k # NoTimer
  BY DEF TimerDue
<1>2. menu \in MenuState /\ PathOf(menu)
  BY DEF MenuOK
<1>3. k \in Timers
  BY <1>1, <1>2 DEF MenuState
<1>4. SameOpen(menu, c) /\ c.active = menu.active /\ c.activeMenu = menu.activeMenu /\ c.timer = NoTimer
  BY <1>2, ClearTimerIs
<1> HIDE DEF c
<1>5. PathOf(c) /\ c \in MenuState /\ c.late = menu.late
  BY <1>2, <1>4 DEF PathOf, SameOpen
<1>6. ASSUME ~menu.late
      PROVE  /\ Rooted(c) /\ ActiveShown(c)
             /\ k.do = "open" => k.menu = c.active
             /\ k.do = "close" => c.active # NoItem
             /\ k.do = "collapse" => k.menu \in Shown(c.open)
  BY <1>4, <1>6 DEF MenuOK, Rooted, ActiveShown, TimerFollows, SameOpen
<1> HIDE DEF k
<1> QED BY <1>1, <1>3, <1>4, <1>5, <1>6, FiredIs DEF MenuOK

LEMMA OrphanDueKeeps ==
  ASSUME MenuOK(menu), NEW k \in menu.orphans, OrphanDue(k) PROVE MenuOK(menu')
<1> DEFINE o == menu.orphans \ {k}
           s == [menu EXCEPT !.orphans = o, !.late = TRUE]
<1>1. menu' = fired(s, k)
  BY DEF OrphanDue
<1>2. menu \in MenuState /\ PathOf(menu) /\ k \in Timers /\ o \subseteq Timers
  BY DEF MenuOK, MenuState
<1> HIDE DEF o
<1>3. s \in MenuState
  BY <1>2 DEF MenuState
<1>4. s.open = menu.open /\ s.late = TRUE
  BY <1>2 DEF MenuState
<1> HIDE DEF s
<1>5. PathOf(s)
  BY <1>2, <1>4 DEF PathOf
<1> QED BY <1>1, <1>2, <1>3, <1>4, <1>5, FiredIs DEF MenuOK

LEMMA MenuStepKeeps == ASSUME MenuOK(menu), MenuNext PROVE MenuOK(menu')
<1>1. ASSUME TypingEnds PROVE MenuOK(menu')
  BY <1>1, TypingIs DEF TypingEnds
<1>2. ASSUME Right PROVE MenuOK(menu')
  BY <1>2, ExpandIs DEF Right
<1>3. ASSUME Enter PROVE MenuOK(menu')
  BY <1>3, ExpandIs, SelectEntryIs DEF Enter
<1> QED BY <1>1, <1>2, <1>3, MouseOnKeeps, ClickItemKeeps, MoveKeeps, LeaveKeeps, FocusMenuKeeps,
           CollapseKeeps, ExpandedKeeps, TimerDueKeeps, OrphanDueKeeps DEF MenuNext

LEMMA MenuHolds == MenuOK(menu) => MenuTypeOK /\ OnePath /\ OpenFromRoot /\ ActiveVisible
<1> SUFFICES ASSUME MenuOK(menu) PROVE MenuTypeOK /\ OnePath /\ OpenFromRoot /\ ActiveVisible
  OBVIOUS
<1>1. menu \in MenuState
  BY DEF MenuOK
<1>2. MenuTypeOK
  BY <1>1 DEF MenuState, MenuTypeOK
<1>3. OnePath
  BY DEF MenuOK, PathOf, OnePath
<1>4. OpenFromRoot
  BY DEF MenuOK, Rooted, Shown, OpenFromRoot
<1>5. ActiveVisible
  <2>1. menu.active # NoItem => menu.active \in Items
    BY <1>1 DEF MenuState
  <2> QED BY <2>1, VisibleIs DEF MenuOK, ActiveShown, Shown, ActiveVisible
<1> QED BY <1>2, <1>3, <1>4, <1>5

-------------------------------------------------------------------------------
(* Select menus.                                                           *)

(* The options of the native select, in their order. *)
LEMMA NativeListIs ==
  ASSUME NEW A \in SUBSET AllOptions
  PROVE  /\ NativeList(A) \in Seq(A) /\ Range(NativeList(A)) = A
         /\ Len(NativeList(A)) = Cardinality(A) /\ Cardinality(A) \in 0..OptionCount
         /\ A = {} <=> NativeList(A) = <<>>
<1>1. IsFiniteSet(AllOptions) /\ Cardinality(AllOptions) = OptionCount /\ OptionCount \in Nat
  BY SelectAssumption, FS_Interval DEF AllOptions
<1>2. IsFiniteSet(A) /\ Cardinality(A) <= OptionCount /\ Cardinality(A) \in Nat
  BY <1>1, FS_Subset, FS_CardinalityType
<1>3. A \subseteq Int
  BY DEF AllOptions
<1>4. NativeList(A) = [i \in 1..Cardinality(A) |-> CHOOSE e \in A : Cardinality({d \in A : d < e}) = i - 1]
  BY DEF NativeList
<1> HIDE DEF NativeList
<1>5. /\ NativeList(A) \in Seq(A) /\ Len(NativeList(A)) = Cardinality(A)
      /\ Range(NativeList(A)) = A
  BY <1>2, <1>3, <1>4, RankedIs
<1>6. A = {} <=> NativeList(A) = <<>>
  <2>1. A = {} => Len(NativeList(A)) = 0
    BY <1>5, FS_EmptySet
  <2>2. Range(<<>>) = {}
    BY DEF Range
  <2> QED BY <1>5, <2>1, <2>2, EmptySeq
<1> QED BY <1>1, <1>2, <1>5, <1>6

SelState ==
  [there : SUBSET AllOptions, sel : AllOptions \cup {NoOption}, items : Seq(AllOptions),
   rendered : BOOLEAN, label : AllOptions \cup {NoOption}, focusItem : 0..OptionCount,
   active : 0..OptionCount, collapse : BOOLEAN, isOpen : BOOLEAN, disabled : BOOLEAN,
   resets : BOOLEAN, untold : BOOLEAN]

(* A menu that is open was rendered, is not disabled and about to blur     *)
(* nothing.                                                                *)
SelTyped(s) ==
  /\ s \in SelState /\ s.sel \in s.there \cup {NoOption} /\ Len(s.items) <= OptionCount
  /\ s.isOpen => s.rendered /\ ~s.disabled /\ ~s.collapse

(* The active item of a menu that has items. *)
ActiveIs(s) ==
  s.items # <<>> => s.focusItem = s.active /\ s.active \in DOMAIN s.items /\ ~s.collapse

(* What the page told is what the widget shows. *)
SelFollows(s) ==
  ~s.untold => /\ s.items = <<>> \/ s.items = NativeList(s.there)
               /\ s.sel # NoOption => s.label = s.sel

EnterFollows(s) ==
  s.isOpen /\ s.items # <<>> => s.focusItem = s.active /\ s.active \in DOMAIN s.items

SelOK(s) == SelTyped(s) /\ SelFollows(s) /\ EnterFollows(s)

LEMMA SelectBegins == SelectInit => SelOK(select)
<1> SUFFICES ASSUME SelectInit PROVE SelOK(select)
  OBVIOUS
<1>1. 1 \in AllOptions /\ 0 \in 0..OptionCount /\ <<>> \in Seq(AllOptions) /\ Len(<<>>) = 0
  BY SelectAssumption, EmptySeq DEF AllOptions
<1>2. select \in SelState
  BY <1>1 DEF SelectInit, SelState, NoOption
<1>3. /\ select.sel = 1 /\ select.there = AllOptions /\ select.items = <<>> /\ ~select.isOpen
      /\ select.label = 1
  BY DEF SelectInit
<1> QED BY <1>1, <1>2, <1>3, SelectAssumption DEF SelOK, SelTyped, SelFollows, EnterFollows

LEMMA NativeAtIs ==
  ASSUME NEW s \in SelState, NEW i
  PROVE  /\ NativeAt(s, i) \in s.there \cup {NoOption}
         /\ i \in DOMAIN NativeList(s.there) => NativeAt(s, i) = NativeList(s.there)[i] /\ NativeAt(s, i) \in s.there
<1>1. s.there \in SUBSET AllOptions
  BY DEF SelState
<1>2. /\ NativeList(s.there) \in Seq(s.there) /\ Len(NativeList(s.there)) = Cardinality(s.there)
  BY <1>1, NativeListIs
<1>3. DOMAIN NativeList(s.there) = 1..Cardinality(s.there)
  BY <1>2, LenProperties
<1>4. \A j \in 1..Cardinality(s.there) : NativeList(s.there)[j] \in s.there
  BY <1>2, ElementOfSeq
<1> QED BY <1>3, <1>4 DEF NativeAt

LEMMA SelectedItemIs ==
  ASSUME NEW s \in SelState, s.sel \in s.there
  PROVE  /\ NativeIndex(s) \in DOMAIN NativeList(s.there)
         /\ NativeAt(s, NativeIndex(s)) = s.sel
         /\ NativeList(s.there)[NativeIndex(s)] = s.sel
         /\ selectedItem(s) = NativeIndex(s)
<1>1. s.there \in SUBSET AllOptions /\ s.sel # NoOption
  BY DEF SelState, AllOptions, NoOption
<1>2. /\ NativeList(s.there) \in Seq(s.there) /\ Len(NativeList(s.there)) = Cardinality(s.there)
      /\ Range(NativeList(s.there)) = s.there
  BY <1>1, NativeListIs
<1>3. DOMAIN NativeList(s.there) = 1..Cardinality(s.there)
  BY <1>2, LenProperties
<1>4. PICK i \in DOMAIN NativeList(s.there) : NativeList(s.there)[i] = s.sel
  BY <1>2 DEF Range
<1>5. NativeAt(s, i) = s.sel
  BY <1>4, NativeAtIs
<1>6. NativeIndex(s) \in 1..Cardinality(s.there) /\ NativeAt(s, NativeIndex(s)) = s.sel
  BY <1>1, <1>3, <1>4, <1>5 DEF NativeIndex
<1> QED BY <1>1, <1>3, <1>6, NativeAtIs DEF selectedItem

(* What a focus in the menu leaves alone. *)
SameSelect(s, t) ==
  /\ t.there = s.there /\ t.items = s.items /\ t.rendered = s.rendered /\ t.isOpen = s.isOpen
  /\ t.disabled = s.disabled /\ t.resets = s.resets /\ t.untold = s.untold

LEMMA SelectItemIs ==
  ASSUME NEW s \in SelState, NEW item \in DOMAIN s.items
  PROVE  LET t == selectItem(s, item)
         IN  /\ t \in SelState /\ t = [s EXCEPT !.sel = t.sel, !.label = t.label, !.isOpen = FALSE]
             /\ t.sel = NativeAt(s, item) /\ t.label = s.items[item] /\ t.sel \in s.there \cup {NoOption}
<1> DEFINE t == selectItem(s, item)
           a == NativeAt(s, item)
           b == s.items[item]
<1>1. t = [s EXCEPT !.sel = a, !.label = b, !.isOpen = FALSE]
  BY DEF selectItem
<1>2. a \in s.there \cup {NoOption}
  BY NativeAtIs
<1>3. b \in AllOptions
  <2>1. s.items \in Seq(AllOptions)
    BY DEF SelState
  <2>2. item \in 1..Len(s.items)
    BY <2>1, LenProperties
  <2> QED BY <2>1, <2>2, ElementOfSeq
<1> HIDE DEF a, b, t
<1>4. t \in SelState /\ t.sel = a /\ t.label = b
  BY <1>1, <1>2, <1>3 DEF SelState
<1> QED BY <1>1, <1>2, <1>4 DEF a, b, t

LEMMA MenuFocusIs ==
  ASSUME NEW s \in SelState, Len(s.items) <= OptionCount, NEW item \in DOMAIN s.items
  PROVE  LET t == menuFocus(s, item)
         IN  /\ t \in SelState /\ SameSelect(s, t)
             /\ t.active = item /\ t.focusItem = item /\ t.collapse = FALSE
             /\ \/ t.sel = s.sel /\ t.label = s.label
                \/ ~s.isOpen /\ t.sel = NativeAt(s, item) /\ t.label = s.items[item] /\ t.sel \in s.there \cup {NoOption}
<1> DEFINE picks == s.focusItem # NoOption /\ item # s.focusItem /\ ~s.isOpen
           c == IF picks THEN selectItem(s, item) ELSE s
           t == menuFocus(s, item)
<1>1. t = [c EXCEPT !.active = item, !.collapse = FALSE, !.focusItem = item]
  BY DEF menuFocus
<1>2. item \in 0..OptionCount
  <2>1. item \in 1..Len(s.items) /\ Len(s.items) \in Nat
    BY LenProperties DEF SelState
  <2> QED BY <2>1, SelectAssumption
<1>3. /\ c \in SelState /\ SameSelect(s, c)
      /\ \/ c.sel = s.sel /\ c.label = s.label
         \/ ~s.isOpen /\ c.sel = NativeAt(s, item) /\ c.label = s.items[item] /\ c.sel \in s.there \cup {NoOption}
  <2>1. CASE picks
    <3>1. c = selectItem(s, item)
      BY <2>1
    <3> HIDE DEF c
    <3>2. /\ c \in SelState /\ c = [s EXCEPT !.sel = c.sel, !.label = c.label, !.isOpen = FALSE]
          /\ c.sel = NativeAt(s, item) /\ c.label = s.items[item] /\ c.sel \in s.there \cup {NoOption}
      BY <3>1, SelectItemIs
    <3>3. s.isOpen = FALSE
      BY <2>1 DEF SelState
    <3>4. SameSelect(s, c)
      BY <3>2, <3>3 DEF SelState, SameSelect
    <3> QED BY <3>2, <3>3, <3>4
  <2>2. CASE ~picks
    <3>1. c = s
      BY <2>2
    <3> QED BY <3>1 DEF SameSelect
  <2> QED BY <2>1, <2>2
<1> HIDE DEF c, t
<1>4. t \in SelState
  BY <1>1, <1>2, <1>3 DEF SelState
<1>5. t.active = item /\ t.focusItem = item /\ t.collapse = FALSE /\ t.sel = c.sel /\ t.label = c.label
  BY <1>1, <1>3 DEF SelState
<1>6. SameSelect(c, t)
  BY <1>1, <1>3 DEF SelState, SameSelect
<1> QED BY <1>3, <1>4, <1>5, <1>6 DEF SameSelect, t

(* The menu is drawn from the native select of the moment, and its item    *)
(* for the selected option is the active one.                              *)
LEMMA RefreshMenuIs ==
  ASSUME NEW s, SelTyped(s)
  PROVE  LET t == refreshMenu(s)
         IN  /\ SelTyped(t) /\ EnterFollows(t) /\ ActiveIs(t)
             /\ t.items = NativeList(s.there) /\ t.there = s.there /\ t.isOpen = s.isOpen
             /\ t.disabled = s.disabled /\ t.untold = s.untold /\ t.rendered
             /\ s.sel # NoOption => t.sel = s.sel
             /\ (t.sel = s.sel /\ t.label = s.label) \/ (t.sel \in t.there /\ t.label = t.sel)
<1> DEFINE l == NativeList(s.there)
           d == [s EXCEPT !.items = l, !.rendered = TRUE, !.active = NoOption]
           t == refreshMenu(s)
<1>0. s \in SelState /\ s.sel \in s.there \cup {NoOption} /\ s.there \in SUBSET AllOptions
  BY DEF SelTyped, SelState
<1>1. /\ l \in Seq(s.there) /\ Range(l) = s.there /\ Len(l) \in 0..OptionCount
      /\ s.there = {} <=> l = <<>>
  BY <1>0, NativeListIs
<1>2. l \in Seq(AllOptions) /\ DOMAIN l = 1..Len(l) /\ NoOption \in 0..OptionCount
  <2>1. \A i \in 1..Len(l) : l[i] \in AllOptions
    BY <1>0, <1>1, ElementOfSeq
  <2>2. DOMAIN l = 1..Len(l) /\ l = [i \in 1..Len(l) |-> l[i]] /\ Len(l) \in Nat
    BY <1>1, LenProperties
  <2>3. l \in [1..Len(l) -> AllOptions]
    BY <2>1, <2>2
  <2>4. NoOption \in 0..OptionCount
    BY SelectAssumption DEF NoOption
  <2> QED BY <2>2, <2>3, <2>4, SeqDef
<1>3. t = IF s.there = {} THEN d ELSE menuFocus(d, selectedItem(d))
  <2>1. d.there = s.there
    BY <1>0 DEF SelState
  <2> HIDE DEF d
  <2>2. refreshMenu(s) = IF s.there = {} THEN d ELSE menuFocus(d, selectedItem(d))
    BY DEF refreshMenu, d
  <2> QED BY <2>2
<1>12. d = [s EXCEPT !.items = l, !.rendered = TRUE, !.active = NoOption]
  OBVIOUS
<1> HIDE DEF l, d, t
<1>4. d \in SelState
  BY <1>0, <1>2, <1>12 DEF SelState
<1>5. d.items = l /\ d.rendered = TRUE /\ d.active = NoOption
  BY <1>0, <1>12 DEF SelState
<1>6. /\ d.there = s.there /\ d.sel = s.sel /\ d.label = s.label /\ d.isOpen = s.isOpen
      /\ d.disabled = s.disabled /\ d.untold = s.untold /\ d.collapse = s.collapse
  BY <1>0, <1>12 DEF SelState
<1>7. SelTyped(d)
  BY <1>0, <1>1, <1>4, <1>5, <1>6 DEF SelTyped
<1>8. CASE s.there = {}
  <2>1. t = d /\ l = <<>>
    BY <1>1, <1>3, <1>8
  <2> QED BY <1>5, <1>6, <1>7, <2>1 DEF EnterFollows, ActiveIs, t, l
<1>9. CASE s.there # {}
  <2> DEFINE k == selectedItem(d)
  <2>1. Len(l) >= 1
    BY <1>1, <1>2, <1>9, EmptySeq, SelectAssumption
  <2>2. CASE s.sel # NoOption
    <3>1. d.sel \in d.there
      BY <1>0, <1>6, <2>2
    <3>2. k \in DOMAIN l /\ l[k] = s.sel /\ NativeAt(d, k) = s.sel
      BY <1>4, <1>6, <3>1, SelectedItemIs DEF l
    <3> HIDE DEF k
    <3>3. t = menuFocus(d, k)
      BY <1>3, <1>9 DEF k
    <3>4. /\ t \in SelState /\ SameSelect(d, t)
          /\ t.active = k /\ t.focusItem = k /\ t.collapse = FALSE
          /\ \/ t.sel = d.sel /\ t.label = d.label
             \/ ~d.isOpen /\ t.sel = NativeAt(d, k) /\ t.label = d.items[k] /\ t.sel \in d.there \cup {NoOption}
      BY <1>4, <1>5, <1>7, <3>2, <3>3, MenuFocusIs DEF SelTyped
    <3>5. SelTyped(t)
      BY <1>7, <3>4 DEF SelTyped, SameSelect
    <3>6. EnterFollows(t) /\ ActiveIs(t)
      BY <1>5, <3>2, <3>4 DEF EnterFollows, ActiveIs, SameSelect
    <3>7. t.sel = s.sel /\ (t.label = s.label \/ t.label = t.sel)
      BY <1>5, <1>6, <3>2, <3>4
    <3> QED BY <1>0, <1>5, <1>6, <2>2, <3>4, <3>5, <3>6, <3>7 DEF SameSelect, t, l
  <2>3. CASE s.sel = NoOption
    <3>1. k = Len(l) /\ k \in DOMAIN l
      BY <1>2, <1>5, <1>6, <2>1, <2>3 DEF selectedItem
    <3> HIDE DEF k
    <3>2. t = menuFocus(d, k)
      BY <1>3, <1>9 DEF k
    <3>3. NativeAt(d, k) = l[k] /\ l[k] \in d.there
      BY <1>4, <1>6, <3>1, NativeAtIs DEF l
    <3>4. /\ t \in SelState /\ SameSelect(d, t)
          /\ t.active = k /\ t.focusItem = k /\ t.collapse = FALSE
          /\ \/ t.sel = d.sel /\ t.label = d.label
             \/ ~d.isOpen /\ t.sel = NativeAt(d, k) /\ t.label = d.items[k] /\ t.sel \in d.there \cup {NoOption}
      BY <1>4, <1>5, <1>7, <3>1, <3>2, MenuFocusIs DEF SelTyped
    <3>5. SelTyped(t)
      BY <1>7, <3>4 DEF SelTyped, SameSelect
    <3>6. EnterFollows(t) /\ ActiveIs(t)
      BY <1>5, <3>1, <3>4 DEF EnterFollows, ActiveIs, SameSelect
    <3>7. (t.sel = s.sel /\ t.label = s.label) \/ (t.sel \in t.there /\ t.label = t.sel)
      BY <1>5, <1>6, <3>3, <3>4 DEF SameSelect
    <3> QED BY <1>5, <1>6, <2>3, <3>4, <3>5, <3>6, <3>7 DEF SameSelect, t, l
  <2> QED BY <2>2, <2>3
<1> QED BY <1>8, <1>9

LEMMA RefreshMenuKeeps ==
  ASSUME NEW s, SelOK(s)
  PROVE  /\ SelOK(refreshMenu(s)) /\ (s.sel # NoOption => refreshMenu(s).sel = s.sel)
         /\ ActiveIs(refreshMenu(s)) /\ refreshMenu(s).untold = s.untold
         /\ refreshMenu(s).items = NativeList(s.there) /\ refreshMenu(s).there = s.there
         /\ refreshMenu(s).disabled = s.disabled /\ refreshMenu(s).rendered
<1> DEFINE t == refreshMenu(s)
<1>1. SelTyped(s) /\ SelFollows(s)
  BY DEF SelOK
<1>2. /\ SelTyped(t) /\ EnterFollows(t) /\ ActiveIs(t)
      /\ t.items = NativeList(s.there) /\ t.there = s.there /\ t.isOpen = s.isOpen
      /\ t.disabled = s.disabled /\ t.untold = s.untold /\ t.rendered
      /\ s.sel # NoOption => t.sel = s.sel
      /\ (t.sel = s.sel /\ t.label = s.label) \/ (t.sel \in t.there /\ t.label = t.sel)
  BY <1>1, RefreshMenuIs
<1> HIDE DEF t
<1>3. SelFollows(t)
  BY <1>1, <1>2 DEF SelFollows
<1> QED BY <1>2, <1>3 DEF SelOK, t

LEMMA RefreshedKeeps ==
  ASSUME NEW s, SelTyped(s)
  PROVE  SelOK(refreshed(s)) /\ (s.sel # NoOption => refreshed(s).sel = s.sel)
<1> DEFINE d == refreshMenu(s)
           b == IF d.there = {} THEN NoOption ELSE d.items[selectedItem(d)]
           t == refreshed(s)
<1>1. /\ SelTyped(d) /\ EnterFollows(d)
      /\ d.items = NativeList(s.there) /\ d.there = s.there
      /\ s.sel # NoOption => d.sel = s.sel
  BY RefreshMenuIs
<1>2. t = [d EXCEPT !.untold = FALSE, !.label = b]
  BY DEF refreshed
<1> HIDE DEF d, t
<1>3. d \in SelState /\ d.there \in SUBSET AllOptions /\ d.sel \in d.there \cup {NoOption}
  BY <1>1 DEF SelTyped, SelState
<1>4. d.sel # NoOption => b = d.sel
  <2>1. ASSUME d.sel # NoOption PROVE b = d.sel
    <3>1. d.sel \in d.there
      BY <1>3, <2>1
    <3> QED BY <1>1, <1>3, <3>1, SelectedItemIs
  <2> QED BY <2>1
<1>5. b \in AllOptions \cup {NoOption}
  <2>1. CASE d.sel # NoOption
    BY <1>3, <1>4, <2>1
  <2>2. CASE d.sel = NoOption /\ d.there # {}
    <3>1. /\ NativeList(d.there) \in Seq(d.there) /\ Len(NativeList(d.there)) \in 0..OptionCount
          /\ NativeList(d.there) # <<>> /\ OptionCount \in Nat
      BY <1>3, <2>2, NativeListIs, SelectAssumption
    <3>2. Len(NativeList(d.there)) \in 1..Len(NativeList(d.there))
      BY <3>1, EmptySeq
    <3>3. NativeList(d.there)[Len(NativeList(d.there))] \in d.there
      BY <3>1, <3>2, ElementOfSeq
    <3>4. selectedItem(d) = Len(NativeList(d.there))
      BY <1>1, <2>2 DEF selectedItem
    <3> QED BY <1>1, <1>3, <2>2, <3>3, <3>4
  <2>3. CASE d.there = {}
    BY <2>3
  <2> QED BY <2>1, <2>2, <2>3
<1> HIDE DEF b
<1>6. t \in SelState
  BY <1>2, <1>3, <1>5 DEF SelState
<1>7. t.untold = FALSE /\ t.label = b
  BY <1>2, <1>3 DEF SelState
<1>8. /\ t.there = d.there /\ t.sel = d.sel /\ t.items = d.items /\ t.rendered = d.rendered /\ t.isOpen = d.isOpen
      /\ t.disabled = d.disabled /\ t.collapse = d.collapse /\ t.focusItem = d.focusItem /\ t.active = d.active
  BY <1>2, <1>3 DEF SelState
<1>9. SelTyped(t)
  BY <1>1, <1>6, <1>8 DEF SelTyped
<1>10. SelFollows(t)
  BY <1>1, <1>4, <1>7, <1>8 DEF SelFollows
<1>11. EnterFollows(t)
  BY <1>1, <1>8 DEF EnterFollows
<1> QED BY <1>1, <1>8, <1>9, <1>10, <1>11 DEF SelOK, t

(* An item of the menu that gets the focus, in a closed menu perhaps as a  *)
(* choice.                                                                 *)
LEMMA MenuFocusKeeps ==
  ASSUME NEW s, SelOK(s), NEW item \in DOMAIN s.items
  PROVE  LET t == menuFocus(s, item)
         IN  /\ SelOK(t) /\ SameSelect(s, t) /\ t.active = item /\ t.focusItem = item
             /\ t.collapse = FALSE
<1> DEFINE t == menuFocus(s, item)
<1>1. s \in SelState /\ Len(s.items) <= OptionCount /\ SelTyped(s) /\ SelFollows(s)
  BY DEF SelOK, SelTyped
<1>2. /\ t \in SelState /\ SameSelect(s, t)
      /\ t.active = item /\ t.focusItem = item /\ t.collapse = FALSE
      /\ \/ t.sel = s.sel /\ t.label = s.label
         \/ ~s.isOpen /\ t.sel = NativeAt(s, item) /\ t.label = s.items[item] /\ t.sel \in s.there \cup {NoOption}
  BY <1>1, MenuFocusIs
<1> HIDE DEF t
<1>3. SelTyped(t)
  BY <1>1, <1>2 DEF SelTyped, SameSelect
<1>4. ~s.untold => s.items = NativeList(s.there) /\ NativeAt(s, item) = s.items[item]
  <2>1. ASSUME ~s.untold PROVE s.items = NativeList(s.there)
    BY <1>1, <2>1 DEF SelFollows
  <2> QED BY <1>1, <2>1, NativeAtIs
<1>5. SelFollows(t)
  BY <1>1, <1>2, <1>4 DEF SelFollows, SameSelect
<1>6. EnterFollows(t)
  BY <1>2 DEF EnterFollows, SameSelect
<1> QED BY <1>2, <1>3, <1>4, <1>5, <1>6 DEF SelOK, t

LEMMA SelectItemKeeps ==
  ASSUME NEW s, SelOK(s), NEW item \in DOMAIN s.items
  PROVE  LET t == selectItem(s, item)
         IN  /\ SelOK(t) /\ t.isOpen = FALSE
<1> DEFINE t == selectItem(s, item)
<1>1. s \in SelState /\ SelTyped(s) /\ SelFollows(s)
  BY DEF SelOK, SelTyped
<1>2. /\ t \in SelState /\ t = [s EXCEPT !.sel = t.sel, !.label = t.label, !.isOpen = FALSE]
      /\ t.sel = NativeAt(s, item) /\ t.label = s.items[item] /\ t.sel \in s.there \cup {NoOption}
  BY <1>1, SelectItemIs
<1> HIDE DEF t
<1>3. t.there = s.there /\ t.items = s.items /\ t.untold = s.untold /\ t.isOpen = FALSE
  BY <1>1, <1>2 DEF SelState
<1>4. ~s.untold => s.items = NativeList(s.there) /\ NativeAt(s, item) = s.items[item]
  <2>1. ASSUME ~s.untold PROVE s.items = NativeList(s.there)
    BY <1>1, <2>1 DEF SelFollows
  <2> QED BY <1>1, <2>1, NativeAtIs
<1>5. SelTyped(t)
  BY <1>1, <1>2, <1>3 DEF SelTyped
<1>6. SelFollows(t) /\ EnterFollows(t)
  BY <1>1, <1>2, <1>3, <1>4 DEF SelFollows, EnterFollows
<1> QED BY <1>2, <1>3, <1>4, <1>5, <1>6 DEF SelOK, t

LEMMA OpenSelectKeeps ==
  ASSUME NEW s, SelOK(s)
  PROVE  SelOK(openSelect(s))
<1> DEFINE k == selectedItem(s)
           r == IF s.rendered THEN menuFocus(s, k) ELSE refreshMenu(s)
           t == openSelect(s)
<1>0. s \in SelState /\ SelFollows(s) /\ SelTyped(s)
  BY DEF SelOK, SelTyped
<1>1. t = IF s.disabled \/ (s.rendered /\ k \notin DOMAIN s.items) THEN s
          ELSE [r EXCEPT !.isOpen = (r.items # <<>>)]
  BY DEF openSelect
<1>2. CASE s.disabled \/ (s.rendered /\ k \notin DOMAIN s.items)
  BY <1>1, <1>2
<1>3. CASE ~s.disabled /\ (s.rendered => k \in DOMAIN s.items)
  <2>1. /\ SelOK(r) /\ ActiveIs(r) /\ r.rendered /\ r.disabled = s.disabled
    <3>1. CASE s.rendered
      <4>1. r = menuFocus(s, k) /\ k \in DOMAIN s.items
        BY <1>3, <3>1
      <4> HIDE DEF r, k
      <4>2. /\ SelOK(r) /\ SameSelect(s, r) /\ r.active = k /\ r.focusItem = k /\ r.collapse = FALSE
        BY <4>1, MenuFocusKeeps
      <4> QED BY <3>1, <4>1, <4>2 DEF ActiveIs, SameSelect
    <3>2. CASE ~s.rendered
      <4>1. r = refreshMenu(s)
        BY <3>2
      <4> HIDE DEF r
      <4> QED BY <4>1, RefreshMenuKeeps
    <3> QED BY <3>1, <3>2
  <2> DEFINE b == r.items # <<>>
  <2>2. t = [r EXCEPT !.isOpen = b]
    BY <1>1, <1>3
  <2>3. b \in BOOLEAN
    OBVIOUS
  <2>4. b => ~r.collapse /\ r.focusItem = r.active /\ r.active \in DOMAIN r.items
    BY <2>1 DEF ActiveIs
  <2> HIDE DEF b, r, t
  <2>5. r \in SelState
    BY <2>1 DEF SelOK, SelTyped
  <2>6. t \in SelState
    BY <2>2, <2>3, <2>5 DEF SelState
  <2>7. /\ t.there = r.there /\ t.sel = r.sel /\ t.items = r.items /\ t.rendered = r.rendered /\ t.isOpen = b
        /\ t.disabled = r.disabled /\ t.collapse = r.collapse /\ t.focusItem = r.focusItem /\ t.active = r.active
        /\ t.label = r.label /\ t.untold = r.untold
    BY <2>2, <2>5 DEF SelState
  <2>8. SelTyped(t)
    BY <1>3, <2>1, <2>4, <2>6, <2>7 DEF SelOK, SelTyped
  <2>9. SelFollows(t)
    BY <2>1, <2>7 DEF SelOK, SelFollows
  <2>10. EnterFollows(t)
    BY <2>4, <2>7 DEF EnterFollows
  <2> QED BY <2>8, <2>9, <2>10 DEF SelOK, t
<1> QED BY <1>2, <1>3

LEMMA CloseIsKept ==
  ASSUME NEW s, SelOK(s), NEW d \in BOOLEAN, NEW o \in BOOLEAN, o => s.isOpen /\ ~d
  PROVE  LET t == [s EXCEPT !.disabled = d, !.isOpen = o]
         IN  SelOK(t) /\ t.sel = s.sel
<1> DEFINE t == [s EXCEPT !.disabled = d, !.isOpen = o]
<1>1. s \in SelState /\ SelTyped(s) /\ SelFollows(s) /\ EnterFollows(s)
  BY DEF SelOK, SelTyped
<1>2. t \in SelState
  BY <1>1 DEF SelState
<1>3. /\ t.there = s.there /\ t.sel = s.sel /\ t.items = s.items /\ t.rendered = s.rendered /\ t.isOpen = o
      /\ t.disabled = d /\ t.collapse = s.collapse /\ t.focusItem = s.focusItem /\ t.active = s.active
      /\ t.label = s.label /\ t.untold = s.untold
  BY <1>1 DEF SelState
<1> HIDE DEF t
<1>4. SelTyped(t) /\ SelFollows(t) /\ EnterFollows(t)
  BY <1>1, <1>2, <1>3 DEF SelTyped, SelFollows, EnterFollows
<1> QED BY <1>3, <1>4 DEF SelOK, t

(* What the page does to the native select is untold until a refresh. *)
LEMMA UntoldKeeps ==
  ASSUME NEW s, SelOK(s), NEW there \in SUBSET AllOptions, NEW sel \in there \cup {NoOption},
         NEW r \in BOOLEAN
  PROVE  SelOK([s EXCEPT !.there = there, !.sel = sel, !.untold = TRUE, !.resets = r])
<1> DEFINE t == [s EXCEPT !.there = there, !.sel = sel, !.untold = TRUE, !.resets = r]
<1>1. s \in SelState /\ SelTyped(s) /\ EnterFollows(s)
  BY DEF SelOK, SelTyped
<1>2. t \in SelState
  BY <1>1 DEF SelState
<1>3. /\ t.there = there /\ t.sel = sel /\ t.items = s.items /\ t.rendered = s.rendered /\ t.isOpen = s.isOpen
      /\ t.disabled = s.disabled /\ t.collapse = s.collapse /\ t.focusItem = s.focusItem /\ t.active = s.active
      /\ t.untold = TRUE
  BY <1>1 DEF SelState
<1> HIDE DEF t
<1>4. SelTyped(t) /\ SelFollows(t) /\ EnterFollows(t)
  BY <1>1, <1>2, <1>3 DEF SelTyped, SelFollows, EnterFollows
<1> QED BY <1>4 DEF SelOK, t

-------------------------------------------------------------------------------

LEMMA FocusSelectKeeps == ASSUME SelOK(select), FocusSelect PROVE SelOK(select')
<1>1. SelOK(refreshMenu(select))
  BY RefreshMenuKeeps
<1> QED BY <1>1 DEF FocusSelect

LEMMA ToggleSelectKeeps == ASSUME SelOK(select), ToggleSelect PROVE SelOK(select')
<1>1. SelOK(openSelect(select))
  BY OpenSelectKeeps
<1>2. LET t == [select EXCEPT !.isOpen = FALSE] IN SelOK(t)
  <2>1. select \in SelState
    BY DEF SelOK, SelTyped
  <2>2. [select EXCEPT !.isOpen = FALSE] = [select EXCEPT !.disabled = select.disabled, !.isOpen = FALSE]
    BY <2>1 DEF SelState
  <2>3. select.disabled \in BOOLEAN
    BY <2>1 DEF SelState
  <2> QED BY <2>2, <2>3, CloseIsKept
<1>3. SelOK(toggled(select))
  BY <1>1, <1>2 DEF toggled
<1> QED BY <1>3 DEF ToggleSelect

LEMMA CloseSelectKeeps == ASSUME SelOK(select), CloseSelect PROVE SelOK(select')
<1> DEFINE t == [select EXCEPT !.isOpen = FALSE]
<1>1. select \in SelState
  BY DEF SelOK, SelTyped
<1>2. t = [select EXCEPT !.disabled = select.disabled, !.isOpen = FALSE]
  BY <1>1 DEF SelState
<1>3. select.disabled \in BOOLEAN
  BY <1>1 DEF SelState
<1>4. SelOK(t)
  BY <1>2, <1>3, CloseIsKept
<1>5. select' = t
  BY DEF CloseSelect
<1> HIDE DEF t
<1> QED BY <1>4, <1>5

LEMMA DisableSelectKeeps ==
  ASSUME SelOK(select), NEW d \in BOOLEAN, DisableSelect(d) PROVE SelOK(select')
<1> DEFINE o == select.isOpen /\ ~d
           t == [select EXCEPT !.disabled = d, !.isOpen = o]
<1>1. o \in BOOLEAN /\ (o => select.isOpen /\ ~d)
  OBVIOUS
<1>2. select' = t
  BY DEF DisableSelect
<1> HIDE DEF o
<1>3. SelOK(t) /\ t.sel = select.sel
  BY <1>1, CloseIsKept
<1> HIDE DEF t
<1> QED BY <1>2, <1>3

LEMMA MoveSelectKeeps ==
  ASSUME SelOK(select), NEW to \in {"prev", "next", "first", "last"}, MoveSelect(to) PROVE SelOK(select')
<1>1. PICK item \in moveTo(select, to) : select' = menuFocus(select, item)
  BY DEF MoveSelect
<1> DEFINE ok == {i \in DOMAIN select.items : select.isOpen \/ select.items[i] \notin Dead}
<1>2. item \in ok
  BY DEF moveTo
<1>3. item \in DOMAIN select.items /\ (select.isOpen \/ select.items[item] \notin Dead)
  BY <1>2
<1>4. SelOK(menuFocus(select, item))
  BY <1>3, MenuFocusKeeps
<1> QED BY <1>1, <1>4

LEMMA LetterSelectKeeps ==
  ASSUME SelOK(select), NEW item, LetterSelect(item) PROVE SelOK(select')
BY MenuFocusKeeps DEF LetterSelect

LEMMA EnterSelectKeeps == ASSUME SelOK(select), EnterSelect PROVE SelOK(select')
<1> DEFINE k == select.focusItem
           t == selectItem(select, k)
<1>1. k \in DOMAIN select.items /\ select.items[k] \notin Dead /\ select' = t
  BY DEF EnterSelect
<1>2. SelOK(t)
  BY <1>1, SelectItemKeeps
<1> HIDE DEF t
<1> QED BY <1>1, <1>2

LEMMA HoverItemKeeps ==
  ASSUME SelOK(select), NEW item, HoverItem(item) PROVE SelOK(select')
<1>1. item \in DOMAIN select.items /\ select.isOpen /\ select' = menuFocus(select, item)
  BY DEF HoverItem
<1>2. SelOK(menuFocus(select, item))
  BY <1>1, MenuFocusKeeps
<1> QED BY <1>1, <1>2

LEMMA CollapseIs ==
  ASSUME NEW s, SelOK(s), ~s.isOpen, NEW c \in BOOLEAN, NEW a \in 0..OptionCount
  PROVE  LET t == [s EXCEPT !.collapse = c, !.active = a]
         IN  SelOK(t) /\ t.sel = s.sel /\ t.untold = s.untold
<1> DEFINE t == [s EXCEPT !.collapse = c, !.active = a]
<1>1. s \in SelState /\ SelTyped(s) /\ SelFollows(s)
  BY DEF SelOK, SelTyped
<1>2. t \in SelState
  BY <1>1 DEF SelState
<1>3. /\ t.there = s.there /\ t.sel = s.sel /\ t.items = s.items /\ t.rendered = s.rendered /\ t.isOpen = s.isOpen
      /\ t.disabled = s.disabled /\ t.label = s.label /\ t.untold = s.untold
  BY <1>1 DEF SelState
<1> HIDE DEF t
<1>4. SelTyped(t) /\ SelFollows(t) /\ EnterFollows(t)
  BY <1>1, <1>2, <1>3 DEF SelTyped, SelFollows, EnterFollows
<1> QED BY <1>3, <1>4 DEF SelOK, t

LEMMA ClickOptionKeeps ==
  ASSUME SelOK(select), NEW item, ClickOption(item) PROVE SelOK(select')
<1> DEFINE f == menuFocus(select, item)
           g == selectItem(f, item)
           t == [g EXCEPT !.collapse = TRUE]
<1>1. /\ item \in DOMAIN select.items /\ select.isOpen /\ select.items[item] \notin Dead
      /\ select' = t
  BY DEF ClickOption
<1>2. SelOK(f) /\ SameSelect(select, f)
  BY <1>1, MenuFocusKeeps
<1> HIDE DEF f
<1>3. SelOK(g) /\ g.isOpen = FALSE
  BY <1>1, <1>2, SelectItemKeeps DEF SameSelect
<1> HIDE DEF g
<1>4. g \in SelState
  BY <1>3 DEF SelOK, SelTyped
<1>5. t = [g EXCEPT !.collapse = TRUE, !.active = g.active] /\ g.active \in 0..OptionCount
  BY <1>4 DEF SelState
<1>6. SelOK(t) /\ t.sel = g.sel /\ t.untold = g.untold
  BY <1>3, <1>5, CollapseIs
<1> HIDE DEF t
<1> QED BY <1>1, <1>6

LEMMA CollapsedKeeps == ASSUME SelOK(select), Collapsed PROVE SelOK(select')
<1> DEFINE t == [select EXCEPT !.collapse = FALSE, !.active = NoOption]
<1>1. select.collapse /\ select' = t
  BY DEF Collapsed
<1>2. ~select.isOpen
  BY <1>1 DEF SelOK, SelTyped
<1>3. NoOption \in 0..OptionCount
  BY SelectAssumption DEF NoOption
<1>4. SelOK(t)
  BY <1>2, <1>3, CollapseIs
<1> HIDE DEF t
<1> QED BY <1>1, <1>4

LEMMA SetNativeKeeps ==
  ASSUME SelOK(select), NEW o, SetNative(o) PROVE SelOK(select')
<1> DEFINE t == [select EXCEPT !.sel = o, !.untold = TRUE]
<1>0. select \in SelState
  BY DEF SelOK, SelTyped
<1>1. o \in select.there /\ select' = t
  BY DEF SetNative
<1>2. t = [select EXCEPT !.there = select.there, !.sel = o, !.untold = TRUE, !.resets = select.resets]
  BY <1>0 DEF SelState
<1>3. select.there \in SUBSET AllOptions /\ select.resets \in BOOLEAN /\ t.untold = TRUE
  BY <1>0 DEF SelState
<1> HIDE DEF t
<1>4. SelOK(t)
  BY <1>1, <1>2, <1>3, UntoldKeeps
<1> QED BY <1>1, <1>3, <1>4

LEMMA ChangeOptionKeeps ==
  ASSUME SelOK(select), NEW o \in AllOptions, ChangeOption(o) PROVE SelOK(select')
<1> DEFINE there == IF o \in select.there THEN select.there \ {o} ELSE select.there \cup {o}
           alive == there \ Dead
           sel == IF select.sel \in there THEN select.sel
                  ELSE IF alive # {} THEN CHOOSE p \in alive : \A q \in alive : p <= q
                  ELSE NoOption
           t == [select EXCEPT !.there = there, !.untold = TRUE, !.sel = sel]
<1>0. select \in SelState
  BY DEF SelOK, SelTyped
<1>1. select' = t
  BY DEF ChangeOption
<1>2. there \in SUBSET AllOptions
  BY <1>0 DEF SelState
<1>3. sel \in there \cup {NoOption}
  <2>1. CASE select.sel \in there
    BY <2>1
  <2>2. CASE select.sel \notin there /\ alive # {}
    <3>1. alive \subseteq Nat
      BY <1>2 DEF AllOptions
    <3>2. \E p \in alive : \A q \in alive : p <= q
      BY <2>2, <3>1, LeastNat
    <3>3. sel \in alive
      BY <2>2, <3>2
    <3> QED BY <3>3
  <2>3. CASE select.sel \notin there /\ alive = {}
    BY <2>3
  <2> QED BY <2>1, <2>2, <2>3
<1> HIDE DEF there, sel
<1>4. t = [select EXCEPT !.there = there, !.sel = sel, !.untold = TRUE, !.resets = select.resets]
  BY <1>0 DEF SelState
<1>5. select.resets \in BOOLEAN /\ t.untold = TRUE
  BY <1>0 DEF SelState
<1> HIDE DEF t
<1>6. SelOK(t)
  BY <1>2, <1>3, <1>4, <1>5, UntoldKeeps
<1> QED BY <1>1, <1>5, <1>6

LEMMA ResetFormKeeps == ASSUME SelOK(select), ResetForm PROVE SelOK(select')
<1> DEFINE t == [select EXCEPT !.sel = 1, !.untold = TRUE, !.resets = TRUE]
<1>0. select \in SelState
  BY DEF SelOK, SelTyped
<1>1. 1 \in select.there /\ select' = t
  BY DEF ResetForm
<1>2. t = [select EXCEPT !.there = select.there, !.sel = 1, !.untold = TRUE, !.resets = TRUE]
  BY <1>0 DEF SelState
<1>3. select.there \in SUBSET AllOptions /\ t.untold = TRUE
  BY <1>0 DEF SelState
<1> HIDE DEF t
<1>4. SelOK(t)
  BY <1>1, <1>2, <1>3, UntoldKeeps
<1> QED BY <1>1, <1>3, <1>4

LEMMA RefreshKeeps ==
  ASSUME SelOK(select), RefreshSelect \/ RefreshAfterReset PROVE SelOK(select')
<1> DEFINE r == [select EXCEPT !.resets = FALSE]
<1>0. select \in SelState /\ SelTyped(select)
  BY DEF SelOK, SelTyped
<1>1. SelTyped(r) /\ r.sel = select.sel
  <2>1. r \in SelState
    BY <1>0 DEF SelState
  <2>2. /\ r.there = select.there /\ r.sel = select.sel /\ r.items = select.items /\ r.rendered = select.rendered
        /\ r.isOpen = select.isOpen /\ r.disabled = select.disabled /\ r.collapse = select.collapse
    BY <1>0 DEF SelState
  <2> HIDE DEF r
  <2> QED BY <1>0, <2>1, <2>2 DEF SelTyped
<1>2. CASE RefreshSelect
  <2>1. SelOK(refreshed(select))
    BY <1>0, RefreshedKeeps
  <2> QED BY <1>2, <2>1 DEF RefreshSelect
<1>3. CASE RefreshAfterReset
  <2>2. select' = refreshed(r)
    BY <1>3 DEF RefreshAfterReset
  <2> HIDE DEF r
  <2>1. SelOK(refreshed(r))
    BY <1>1, RefreshedKeeps
  <2> QED BY <2>1, <2>2
<1> QED BY <1>2, <1>3

LEMMA SelectStepKeeps == ASSUME SelOK(select), SelectNext PROVE SelOK(select')
BY FocusSelectKeeps, ToggleSelectKeeps, CloseSelectKeeps, EnterSelectKeeps, CollapsedKeeps, MoveSelectKeeps,
   LetterSelectKeeps, HoverItemKeeps, ClickOptionKeeps, DisableSelectKeeps, SetNativeKeeps,
   ChangeOptionKeeps, ResetFormKeeps, RefreshKeeps DEF SelectNext

LEMMA SelectHolds == SelOK(select) => SelectTypeOK /\ LabelIsSelection /\ EnterTakesActive
<1> SUFFICES ASSUME SelOK(select) PROVE SelectTypeOK /\ LabelIsSelection /\ EnterTakesActive
  OBVIOUS
<1>1. select \in SelState /\ SelTyped(select) /\ SelFollows(select) /\ EnterFollows(select)
  BY DEF SelOK, SelTyped
<1>2. SelectTypeOK
  BY <1>1 DEF SelectTypeOK, SelState, SelTyped
<1>3. LabelIsSelection /\ EnterTakesActive
  BY <1>1 DEF SelFollows, EnterFollows, LabelIsSelection, EnterTakesActive
<1> QED BY <1>2, <1>3

-------------------------------------------------------------------------------
(* These widgets together: a step is one of a single widget.               *)

WidgetsCorrect ==
  /\ PickerCorrect(picker) /\ TableCorrect /\ TabsOK(tabs) /\ AccordionOK(accordion)
  /\ DialogsOK(dlg, top, switched) /\ MenuOK(menu) /\ SelOK(select)

LEMMA OtherSteps ==
  ASSUME [Next]_widgetVars
  PROVE  /\ DatepickerStep \/ UNCHANGED pickerVars
         /\ TabsStep \/ UNCHANGED tabs
         /\ AccordionStep \/ UNCHANGED accordion
         /\ DialogStep \/ UNCHANGED dialogVars
         /\ MenuStep \/ UNCHANGED menu
         /\ SelectStep \/ UNCHANGED select
<1>1. CASE UNCHANGED widgetVars
  BY <1>1 DEF widgetVars
<1>2. CASE AutocompleteStep \/ SpinnerStep \/ SliderStep \/ TooltipStep \/ MouseStep \/
           SelectableStep \/ DragStep \/ SortableStep \/ CalendarStep
  BY <1>2 DEF AutocompleteStep, SpinnerStep, SliderStep, TooltipStep, MouseStep, SelectableStep,
     DragStep, SortableStep, CalendarStep
<1>3. CASE DatepickerStep
  BY <1>3 DEF DatepickerStep
<1>4. CASE TabsStep
  BY <1>4 DEF TabsStep
<1>5. CASE AccordionStep
  BY <1>5 DEF AccordionStep
<1>6. CASE DialogStep
  BY <1>6 DEF DialogStep
<1>7. CASE MenuStep
  BY <1>7 DEF MenuStep
<1>8. CASE SelectStep
  BY <1>8 DEF SelectStep
<1> QED BY <1>1, <1>2, <1>3, <1>4, <1>5, <1>6, <1>7, <1>8 DEF Next

LEMMA WidgetsBegin == Init => WidgetsCorrect
BY DatepickerBegins, TabsBegin, AccordionBegins, DialogsBegin, MenuBegins, SelectBegins DEF Init, WidgetsCorrect

LEMMA WidgetsStep == WidgetsCorrect /\ [Next]_widgetVars => WidgetsCorrect'
<1> SUFFICES ASSUME WidgetsCorrect, [Next]_widgetVars PROVE WidgetsCorrect'
  OBVIOUS
<1>1. PickerCorrect(picker)' /\ TableCorrect'
  <2>1. CASE DatepickerStep
    BY <2>1, DatepickerStepKeeps, TableKeeps DEF DatepickerStep, WidgetsCorrect, PickerKept
  <2>2. CASE UNCHANGED pickerVars
    BY <2>2 DEF WidgetsCorrect, pickerVars, TableCorrect
  <2> QED BY <2>1, <2>2, OtherSteps
<1>2. TabsOK(tabs)'
  <2>1. CASE TabsStep
    BY <2>1, TabsStepKeeps DEF TabsStep, WidgetsCorrect
  <2>2. CASE UNCHANGED tabs
    BY <2>2 DEF WidgetsCorrect
  <2> QED BY <2>1, <2>2, OtherSteps
<1>3. AccordionOK(accordion)'
  <2>1. CASE AccordionStep
    BY <2>1, AccordionStepKeeps DEF AccordionStep, WidgetsCorrect
  <2>2. CASE UNCHANGED accordion
    BY <2>2 DEF WidgetsCorrect
  <2> QED BY <2>1, <2>2, OtherSteps
<1>4. DialogsOK(dlg, top, switched)'
  <2>1. CASE DialogStep
    BY <2>1, DialogStepKeeps DEF DialogStep, WidgetsCorrect
  <2>2. CASE UNCHANGED dialogVars
    BY <2>2 DEF WidgetsCorrect, dialogVars
  <2> QED BY <2>1, <2>2, OtherSteps
<1>5. MenuOK(menu)'
  <2>1. CASE MenuStep
    BY <2>1, MenuStepKeeps DEF MenuStep, WidgetsCorrect
  <2>2. CASE UNCHANGED menu
    BY <2>2 DEF WidgetsCorrect
  <2> QED BY <2>1, <2>2, OtherSteps
<1>6. SelOK(select)'
  <2>1. CASE SelectStep
    BY <2>1, SelectStepKeeps DEF SelectStep, WidgetsCorrect
  <2>2. CASE UNCHANGED select
    BY <2>2 DEF WidgetsCorrect
  <2> QED BY <2>1, <2>2, OtherSteps
<1> QED BY <1>1, <1>2, <1>3, <1>4, <1>5, <1>6 DEF WidgetsCorrect

(* The list of dialogs and the number of overlays that all dialogs share   *)
(* are those of the open ones, an overlay lies just below its dialog, and  *)
(* the dialog that was brought to the top last lies over all the others,   *)
(* however they are opened, closed, renewed and given another modality.    *)
THEOREM DialogsStack == Spec => []DialogsCorrect
<1>1. WidgetsCorrect => DialogsCorrect
  BY DialogsHold DEF WidgetsCorrect, DialogsCorrect
<1> QED BY <1>1, WidgetsBegin, WidgetsStep, PTL DEF Spec

(* While a modal dialog is open, neither the user nor a dialog that gives  *)
(* the focus back takes it out to the page.                                *)
THEOREM FocusStaysIn == Spec => ModalKeepsFocus
<1>1. WidgetsCorrect /\ [Next]_widgetVars => [ModalStep]_dialogVars
  <2> SUFFICES ASSUME WidgetsCorrect, [Next]_widgetVars PROVE ModalStep \/ UNCHANGED dialogVars
    OBVIOUS
  <2>1. CASE DialogStep
    BY <2>1, DialogStepKeeps DEF DialogStep, WidgetsCorrect
  <2> QED BY <2>1, OtherSteps
<1>2. Spec => [][ModalStep]_dialogVars
  BY <1>1, WidgetsBegin, WidgetsStep, PTL DEF Spec
<1> QED BY <1>2 DEF ModalKeepsFocus, ModalStep

(* Tabs and accordions show one panel, that of the active tab or header,   *)
(* and know its index, though the page adds, removes and disables tabs,    *)
(* panels are animated and loaded, and the user goes on meanwhile.         *)
THEOREM PanelsAreActive == Spec => []PanelsCorrect
<1>1. WidgetsCorrect => PanelsCorrect
  BY TabsHold, AccordionHolds DEF WidgetsCorrect, PanelsCorrect, TabsAgree, AccordionAgrees
<1> QED BY <1>1, WidgetsBegin, WidgetsStep, PTL DEF Spec

(* The open submenus are one path from the root and the active item can be *)
(* seen, though mouse, keys and focus share one timer; and a select menu   *)
(* shows and takes what its native select has, which the page changes and  *)
(* resets behind it.                                                       *)
THEOREM MenusFollow == Spec => []MenusCorrect
<1>1. WidgetsCorrect => MenusCorrect
  BY MenuHolds, SelectHolds DEF WidgetsCorrect, MenusCorrect
<1> QED BY <1>1, WidgetsBegin, WidgetsStep, PTL DEF Spec

(* The calendar on the page is that of the field it was opened for, which  *)
(* has the focus, unless the page meddled; and when none is shown every    *)
(* field can open one.                                                     *)
THEOREM CalendarServesItsField == Spec => []CalendarIsShared
<1>1. WidgetsCorrect => CalendarIsShared
  BY DatepickerHolds DEF WidgetsCorrect, CalendarIsShared
<1> QED BY <1>1, WidgetsBegin, WidgetsStep, PTL DEF Spec

(* A click on a day of the calendar as it is drawn changes the text of no  *)
(* field but the one it was drawn for, and only to a day that this field   *)
(* allows now, while it is enabled.                                        *)
THEOREM ClicksWriteAllowed == Spec => ClickWritesAllowed
<1> DEFINE A == \A d \in Days : ClickDay(d) =>
                  \A f \in Fields : picker'.of[f].text # picker.of[f].text =>
                    f = table.of /\ d \in Allowed(picker.of[f]) /\ ~picker.of[f].disabled
<1>1. WidgetsCorrect => A
  BY ClickWrites DEF WidgetsCorrect
<1>2. WidgetsCorrect /\ [Next]_widgetVars => [A]_pickerVars
  BY <1>1
<1>3. Spec => [][A]_pickerVars
  <2> HIDE DEF A
  <2> QED BY <1>2, WidgetsBegin, WidgetsStep, PTL DEF Spec
<1> QED BY <1>3 DEF ClickWritesAllowed
===============================================================================
