------------------------------- MODULE Datepicker -------------------------------
(***************************************************************************)
(* The date picker of jQuery UI: one manager and one calendar on the page, *)
(* shared by every field it is attached to ("$.datepicker", "dpDiv").  A   *)
(* calendar opens when its field gets the focus, without animation and     *)
(* callbacks other than beforeShow.  Days are numbered; MonthOf gives the  *)
(* month of each.  A field may hold a day, nothing, or a text that is no   *)
(* date.                                                                   *)
(***************************************************************************)
EXTENDS Integers

CONSTANTS Fields, NoField,
          Edited,           \* the fields the user types into and the page changes
          MonthOf,          \* MonthOf[d] is the month of day d
          Today,
          Narrow            \* the days a field allows while its range is narrow

Days == DOMAIN MonthOf

ASSUME DatepickerAssumption ==
  /\ NoField \notin Fields /\ Edited \subseteq Fields
  /\ Days \in SUBSET (Nat \ {0}) /\ Today \in Days
  /\ Narrow \subseteq Days /\ Narrow # {}
  /\ \A d, e \in Days : d < e => MonthOf[d] <= MonthOf[e]

NoDate == 0         \* an empty field, no current day
Garbage == -1       \* a text that is no date
Unread == -2        \* lastVal before the field has been read

VARIABLES
  picker,           \* the manager and the fields
  table             \* the calendar as it is drawn: for which field, with which days to click

pickerVars == <<picker, table>>

DatepickerInit ==
  /\ table = [of |-> NoField, cells |-> {}]
  /\ picker =
       [of      |-> [f \in Fields |->
                       [attached |-> TRUE, disabled |-> FALSE, narrow |-> FALSE,
                        text |-> NoDate, lastVal |-> Unread,
                        selected |-> NoDate, current |-> NoDate]],
        cur     |-> NoField,      \* _curInst
        last    |-> NoField,      \* _lastInput
        drawn   |-> NoField,      \* datepicker_instActive
        showing |-> FALSE,
        focus   |-> NoField,
        meddled |-> FALSE]        \* has the page touched a field while it was shown?

Allowed(i) == IF i.narrow THEN Narrow ELSE Days

-------------------------------------------------------------------------------
(* One field. *)

(* _restrictMinMax *)
restrictMinMax(i, d) ==
  CHOOSE e \in Allowed(i) :
    \A c \in Allowed(i) : (IF d < e THEN e - d ELSE d - e) <= (IF d < c THEN c - d ELSE d - c)

(* _setDateFromField, which reads a text once.  What is no date stands for *)
(* the default, the date of today; without default it is none.             *)
setDateFromField(i, noDefault) ==
  LET default == restrictMinMax(i, Today)
      date == IF i.text \in Days THEN i.text ELSE default
      empty == i.text = NoDate \/ (noDefault /\ i.text = Garbage)
  IN  IF i.text = i.lastVal THEN i
      ELSE [i EXCEPT !.lastVal = i.text,
                     !.selected = restrictMinMax(i, date),
                     !.current = IF empty THEN NoDate ELSE date]

(* _setDate; no date clears the field. *)
setDate(i, d) ==
  LET date == restrictMinMax(i, IF d = NoDate THEN Today ELSE d)
  IN  [i EXCEPT !.selected = date, !.current = date, !.text = IF d = NoDate THEN d ELSE date]

(* _getDate *)
getDate(i) == IF i.text = NoDate THEN NoDate ELSE i.current

(* _adjustInstDate, by months: a day of that month, within the range.      *)
adjustMonth(i, month) ==
  {[i EXCEPT !.selected = restrictMinMax(i, d)] : d \in {e \in Days : MonthOf[e] = month}}

-------------------------------------------------------------------------------
(* The manager. *)

(* Mutant: the field stays the last one. *)
hideOnly(s) == IF s.cur = NoField \/ ~s.showing THEN s ELSE [s EXCEPT !.showing = FALSE]

(* _hideDatepicker *)
hideDatepicker(s) ==
  IF s.cur = NoField \/ ~s.showing THEN s
  ELSE [s EXCEPT !.showing = FALSE, !.last = NoField, !.meddled = FALSE]

(* _showDatepicker; beforeShow may refuse. *)
willShow(s, f, refused) == ~s.of[f].disabled /\ s.last # f /\ ~refused

showDatepicker(s, f, refused) ==
  LET free == IF s.cur \notin {NoField, f} /\ s.of[s.cur].attached THEN hideDatepicker(s) ELSE s
  IN  IF s.of[f].disabled \/ s.last = f THEN s
      ELSE IF refused THEN free
      ELSE [free EXCEPT !.of[f] = setDateFromField([@ EXCEPT !.lastVal = Unread], FALSE),
                        !.last = f, !.drawn = f, !.showing = TRUE, !.cur = f,
                        !.focus = f, !.meddled = FALSE]

(* _updateDatepicker: the calendar is drawn for field f, whoever uses it,  *)
(* with the days of the selected month that the field allows.              *)
updateDatepicker(s, f) == [s EXCEPT !.drawn = f]

cells(i) == {d \in Allowed(i) : MonthOf[d] = MonthOf[i.selected]}
Redraw(f) == table' = [of |-> f, cells |-> cells(picker'.of[f])]

(* _selectDate: write it, close the calendar. *)
selectDate(s, f, text) ==
  [hideDatepicker([s EXCEPT !.of[f].text = text]) EXCEPT !.last = NoField]

(* _selectDay, of a day that can be clicked *)
selectDay(s, f, d) ==
  IF s.of[f].disabled THEN s
  ELSE selectDate([s EXCEPT !.of[f].selected = d, !.of[f].current = d], f, d)

-------------------------------------------------------------------------------
(* The user. *)

CanType(f) == picker.focus = f /\ ~picker.of[f].disabled /\ picker.of[f].attached

(* A press on a field closes the calendar of another one; the focus opens  *)
(* its own.                                                                *)
FocusField(f, refused) ==
  /\ picker.of[f].attached /\ ~picker.of[f].disabled /\ picker.focus # f
  /\ LET s == IF picker.cur # f THEN hideDatepicker(picker) ELSE picker
     IN  /\ picker' = [showDatepicker(s, f, refused) EXCEPT !.focus = f]
         /\ IF willShow(s, f, refused) THEN Redraw(f) ELSE UNCHANGED table

PressElsewhere ==
  picker' = [hideDatepicker(picker) EXCEPT !.focus = NoField] /\ UNCHANGED table

(* Tab, escape, or the button that closes. *)
CloseCalendar == picker.showing /\ picker' = hideDatepicker(picker) /\ UNCHANGED table

OpenByKey(f, refused) ==
  /\ CanType(f) /\ ~picker.showing
  /\ picker' = showDatepicker(picker, f, refused)
  /\ IF willShow(picker, f, refused) THEN Redraw(f) ELSE UNCHANGED table

(* A click on a day of the calendar as it is drawn: it acts on the field   *)
(* that it was drawn for, as that field is now.                            *)
ClickDay(d) ==
  LET f == table.of
  IN  /\ picker.showing /\ d \in table.cells /\ picker.of[f].attached
      /\ picker' = selectDay(picker, f, d)
      /\ UNCHANGED table

(* A click on previous or next, _adjustDate. *)
TurnMonth(month) ==
  LET f == table.of
  IN  /\ picker.showing /\ f # NoField
      /\ picker.of[f].attached /\ ~picker.of[f].disabled /\ picker.of[f].selected # NoDate
      /\ MonthOf[picker.of[f].selected] \in {month - 1, month + 1}
      /\ \E i \in adjustMonth(picker.of[f], month) :
           picker' = updateDatepicker([picker EXCEPT !.of[f] = i], f)
      /\ Redraw(f)

(* An arrow with control: another day.  *)
KeyDay(f, step) ==
  /\ CanType(f) /\ picker.showing /\ picker.of[f].selected # NoDate
  /\ picker' = updateDatepicker(
       [picker EXCEPT !.of[f].selected = restrictMinMax(picker.of[f], @ + step)], f)
  /\ Redraw(f)

(* Enter: take the day that is highlighted unless it is the current one,   *)
(* and close.  (Left out is a day highlighted in a calendar that the page  *)
(* had drawn for another field meanwhile.)                                 *)
EnterDay(f, takes) ==
  /\ CanType(f) /\ picker.showing
  /\ takes => table.of = f /\ picker.of[f].selected \notin {NoDate, picker.of[f].current}
  /\ picker' = IF takes THEN selectDay(picker, f, picker.of[f].selected) ELSE hideDatepicker(picker)
  /\ UNCHANGED table

(* Control and end. *)
ClearByKey(f) ==
  CanType(f) /\ picker.showing /\ picker' = selectDate(picker, f, NoDate) /\ UNCHANGED table

(* The user types, and _doKeyUp reads a text that is a date and not the    *)
(* last one read.                                                          *)
TypeText(f, text) ==
  /\ f \in Edited /\ CanType(f) /\ text # picker.of[f].text
  /\ LET typed == [picker EXCEPT !.of[f].text = text]
         read == updateDatepicker([typed EXCEPT !.of[f] = setDateFromField(@, FALSE)], f)
     IN  IF text = picker.of[f].lastVal \/ text \notin Days
           THEN picker' = typed /\ UNCHANGED table
           ELSE picker' = read /\ Redraw(f)

-------------------------------------------------------------------------------
(* The page. *)

Meddled(s) == [s EXCEPT !.meddled = @ \/ picker.showing]

SetDate(f, d) ==
  /\ f \in Edited /\ picker.of[f].attached
  /\ picker' = Meddled(updateDatepicker([picker EXCEPT !.of[f] = setDate(@, d)], f))
  /\ Redraw(f)

(* Mutant: the calendar is not drawn again. *)
SetRangeUndrawn(f, narrow) ==
  /\ f \in Edited /\ picker.of[f].attached
  /\ LET s == IF picker.cur = f THEN hideDatepicker(picker) ELSE picker
         i == setDateFromField(s.of[f], TRUE)
     IN  picker' = [s EXCEPT !.of[f] = setDate([i EXCEPT !.narrow = narrow], getDate(i)),
                             !.meddled = s.showing]
  /\ UNCHANGED table

(* _optionDatepicker with another minDate and maxDate *)
SetRange(f, narrow) ==
  /\ f \in Edited /\ picker.of[f].attached
  /\ LET s == IF picker.cur = f THEN hideDatepicker(picker) ELSE picker
         i == setDateFromField(s.of[f], TRUE)
     IN  picker' = [updateDatepicker(
                      [s EXCEPT !.of[f] = setDate([i EXCEPT !.narrow = narrow], getDate(i))], f)
                      EXCEPT !.meddled = s.showing]
  /\ Redraw(f)

DisableField(f, disabled) ==
  /\ f \in Edited /\ picker.of[f].attached
  /\ picker' = [picker EXCEPT !.of[f].disabled = disabled,
                              !.focus = IF disabled /\ @ = f THEN NoField ELSE @]
  /\ UNCHANGED table

Bare(i) ==
  [i EXCEPT !.attached = FALSE, !.narrow = FALSE, !.lastVal = Unread, !.selected = NoDate,
            !.current = NoDate]

(* _destroyDatepicker takes the instance away and leaves the calendar      *)
(* where it is.                                                            *)
DestroyField(f) ==
  /\ f \in Edited /\ picker.of[f].attached
  /\ picker' = Meddled([picker EXCEPT !.of[f] = Bare(@),
                                      !.drawn = IF @ = f THEN NoField ELSE @,
                                      !.cur = IF picker.drawn = f THEN NoField ELSE @])
  /\ UNCHANGED table

(* _attachDatepicker, a new instance *)
AttachField(f) ==
  ~picker.of[f].attached /\ picker' = [picker EXCEPT !.of[f].attached = TRUE] /\ UNCHANGED table

DatepickerNext ==
  \/ PressElsewhere \/ CloseCalendar
  \/ \E d \in Days : ClickDay(d) \/ TurnMonth(MonthOf[d])
  \/ \E f \in Fields :
       \/ \E b \in BOOLEAN : \/ FocusField(f, b) \/ OpenByKey(f, b) \/ EnterDay(f, b)
                             \/ SetRange(f, b) \/ DisableField(f, b)
       \/ \E step \in {-1, 1} : KeyDay(f, step)
       \/ \E text \in Days \cup {NoDate, Garbage} : TypeText(f, text)
       \/ \E d \in Days \cup {NoDate} : SetDate(f, d)
       \/ ClearByKey(f) \/ DestroyField(f) \/ AttachField(f)

-------------------------------------------------------------------------------

(* A day that is selected, highlighted and taken by enter is one that the  *)
(* field allows, whatever was typed and however its range was changed.     *)
DatepickerTypeOK ==
  /\ {picker.cur, picker.last, picker.drawn, picker.focus} \subseteq Fields \cup {NoField}
  /\ \A f \in Fields :
       /\ picker.of[f].text \in Days \cup {NoDate, Garbage}
       /\ picker.of[f].selected \in Allowed(picker.of[f]) \cup {NoDate}

(* The calendar on the page is the one of the field it was opened for, so  *)
(* that a click writes into that field (unless the page touched a field    *)
(* meanwhile); and when none is shown every field can open one.            *)
CalendarIsOfField ==
  /\ ~picker.showing => picker.last = NoField
  /\ picker.showing /\ ~picker.meddled =>
       /\ picker.cur \in Fields
       /\ picker.cur = picker.last /\ picker.cur = picker.drawn /\ picker.cur = table.of
       /\ picker.of[picker.cur].attached

(* A click changes the text of one field at most, the one the calendar was *)
(* drawn for, and to a day that this field allows now, though its range    *)
(* or the field itself changed while the calendar stayed on the page.      *)
ClickWritesAllowed ==
  [][\A d \in Days : ClickDay(d) =>
       \A f \in Fields : picker'.of[f].text # picker.of[f].text =>
         f = table.of /\ d \in Allowed(picker.of[f]) /\ ~picker.of[f].disabled]_pickerVars
=============================================================================
