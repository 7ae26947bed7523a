-------------------------------- MODULE Calendar --------------------------------
(***************************************************************************)
(* The dates of jQuery UI's datepicker: what a calendar draws and lets one *)
(* click (_generateHTML), how keys, links and selects move in it, and how  *)
(* dates become text and text dates (formatDate, parseDate).  Months are   *)
(* numbered from 0, as in JavaScript.  A text is a sequence of characters, *)
(* in which a name of a day or a month counts as one.                      *)
(***************************************************************************)
EXTENDS Integers, FiniteSets, SequencesExt

CONSTANTS
  Calendars,      \* the options of the calendars, see CalendarAssumption
  TodaysDate,
  Formats,        \* the formats of dates, as sequences of characters
  Years           \* bound: the years in which a calendar without limits is used

NoDay == [y |-> 0, m |-> 0, d |-> 0]
NoOptions == [months |-> 0]

ASSUME CalendarAssumption ==
  \A options \in Calendars :
    /\ options.months \in 1..2 /\ options.at \in 0..options.months - 1 /\ options.firstDay \in 0..6
    /\ options.others \in BOOLEAN /\ options.inline \in BOOLEAN
    /\ options.min.y \in Nat /\ options.max.y \in Nat

VARIABLES
  options,        \* NoOptions, or of Calendars: numberOfMonths, showCurrentAtPos, firstDay,
                  \* selectOtherMonths, minDate and maxDate, and whether it is inline
  selected,       \* selectedYear, selectedMonth and selectedDay
  draw,           \* drawYear and drawMonth, as a first day
  redrawn         \* was it drawn again since its month was chosen?

calendarVars == <<options, selected, draw, redrawn>>

-------------------------------------------------------------------------------
(* JavaScript's Date *)

IsLeap(y) == y % 4 = 0 /\ (y % 100 # 0 \/ y % 400 = 0)
Length(y, m) ==
  IF m = 1 THEN IF IsLeap(y) THEN 29 ELSE 28 ELSE IF m \in {3, 5, 8, 10} THEN 30 ELSE 31

(* new Date(y, m, d), where m and d may be out of range.                   *)
NewDate[y \in Int, m \in Int, d \in Int] ==
  IF m \notin 0..11 THEN NewDate[y + m \div 12, m % 12, d]
  ELSE IF d < 1 THEN NewDate[y, m - 1, d + Length(IF m = 0 THEN y - 1 ELSE y, (m - 1) % 12)]
  ELSE IF d > Length(y, m) THEN NewDate[y, m + 1, d - Length(y, m)]
  ELSE [y |-> y, m |-> m, d |-> d]

DaysBefore == <<0, 31, 59, 90, 120, 151, 181, 212, 243, 273, 304, 334>>
(* getTime, in days.                                                       *)
Time(date) ==
  LET y == date.y - 1
  IN  365 * y + y \div 4 - y \div 100 + y \div 400 + DaysBefore[date.m + 1] + date.d
        + IF date.m > 1 /\ IsLeap(date.y) THEN 1 ELSE 0
getDay(date) == Time(date) % 7
Plus(date, days) == NewDate[date.y, date.m, date.d + days]
Earlier(a, b) == Time(a) < Time(b)

-------------------------------------------------------------------------------
(* Moving in a calendar *)

getDaysInMonth(y, m) == 32 - NewDate[y, m, 32].d

(* The week of the year, by its Thursday.                                  *)
iso8601Week(date) ==
  LET thursday == Plus(date, 4 - IF getDay(date) = 0 THEN 7 ELSE getDay(date))
  IN  (Time(thursday) - Time(NewDate[thursday.y, 0, 1])) \div 7 + 1

restrictDate(date) ==
  LET above == IF options.min # NoDay /\ Earlier(date, options.min) THEN options.min ELSE date
  IN  IF options.max # NoDay /\ Earlier(options.max, above) THEN options.max ELSE above

isInRange(date) ==
  /\ options.min = NoDay \/ ~Earlier(date, options.min)
  /\ options.max = NoDay \/ ~Earlier(options.max, date)

(* Mutant: the day is not cut to the length of the month. *)
adjustOver(date, offset, period) ==
  restrictDate(NewDate[date.y + IF period = "Y" THEN offset ELSE 0,
                       date.m + IF period = "M" THEN offset ELSE 0,
                       date.d + IF period = "D" THEN offset ELSE 0])

(* _adjustInstDate: the day is cut to the length of the month.             *)
adjustInstDate(date, offset, period) ==
  LET y == date.y + IF period = "Y" THEN offset ELSE 0
      m == date.m + IF period = "M" THEN offset ELSE 0
      dim == getDaysInMonth(y, m)
  IN  restrictDate(NewDate[y, m, (IF date.d < dim THEN date.d ELSE dim)
                                   + IF period = "D" THEN offset ELSE 0])

(* _determineDate, for a date given by steps like +1m or -2w.              *)
determineDate(date, steps) ==
  LET cut(t) == [t EXCEPT !.d = IF @ < getDaysInMonth(t.y, t.m) THEN @ ELSE getDaysInMonth(t.y, t.m)]
      one(t, step) == CASE step.unit = "d" -> [t EXCEPT !.d = @ + step.n]
                        [] step.unit = "w" -> [t EXCEPT !.d = @ + 7 * step.n]
                        [] step.unit = "m" -> cut([t EXCEPT !.m = @ + step.n])
                        [] step.unit = "y" -> cut([t EXCEPT !.y = @ + step.n])
      last == FoldLeft(one, date, steps)
  IN  NewDate[last.y, last.m, last.d]

-------------------------------------------------------------------------------
(* What is drawn: the months from drawMonth on, which drawing moves itself *)

drawnBefore(first, maxDraw) ==
  LET back[m \in Int] == IF Earlier(maxDraw, NewDate[first.y, m, 1]) THEN back[m - 1]
                         ELSE NewDate[first.y, m, 1]
  IN  back[first.m]

(* The first month: moved by showCurrentAtPos, then back until the last    *)
(* one is allowed.                                                         *)
drawnAt(date) ==
  LET first == NewDate[date.y, date.m - options.at, 1]
      fits == NewDate[options.max.y, options.max.m - options.months + 1, options.max.d]
      maxDraw == IF options.min # NoDay /\ Earlier(fits, options.min) THEN options.min ELSE fits
  IN  IF options.max = NoDay THEN first ELSE drawnBefore(first, maxDraw)

Drawn(i) == NewDate[draw.y, draw.m + i - 1, 1]
Months == 1..options.months

leadDays(i) == (getDay(Drawn(i)) - options.firstDay + 7) % 7

curRows(i) == (leadDays(i) + getDaysInMonth(Drawn(i).y, Drawn(i).m) + 6) \div 7

(* Several months in a row: no fewer rows than the ones before.            *)
numRows(i) ==
  IF options.months = 1 THEN curRows(i)
  ELSE LET least == IF i = 1 THEN 4 ELSE IF curRows(1) > 4 THEN curRows(1) ELSE 4
       IN  IF curRows(i) > least THEN curRows(i) ELSE least

(* The table of month i: the date in row r, column c.                      *)
Grid(i) ==
  LET first == Drawn(i)
      lead == leadDays(i)
  IN  [r \in 1..numRows(i) |-> [c \in 1..7 |-> NewDate[first.y, first.m, 7 * r + c - lead - 7]]]

(* What can be clicked in the table of month i.                            *)
Clickable(i) ==
  {date \in UNION {Range(row) : row \in Range(Grid(i))} :
     /\ date.m = Drawn(i).m \/ options.others
     /\ isInRange(date)}

(* Is there a link to the month before, by its last day, or to the one     *)
(* behind, by its first?                                                   *)
canAdjustMonth(offset) ==
  LET date == NewDate[draw.y, draw.m + (IF offset < 0 THEN offset ELSE options.months), 1]
  IN  isInRange(IF offset < 0 THEN [date EXCEPT !.d = getDaysInMonth(date.y, date.m)] ELSE date)

(* The months that the select of the first header offers, and its years,   *)
(* for yearRange "c-1:c+1".                                                *)
monthOptions ==
  {m \in 0..11 : /\ options.min # NoDay /\ options.min.y = draw.y => m >= options.min.m
                 /\ options.max # NoDay /\ options.max.y = draw.y => m <= options.max.m}
yearOptions ==
  {y \in draw.y - 1..draw.y + 1 : /\ options.min # NoDay => y >= options.min.y
                                 /\ options.max # NoDay => y <= options.max.y}

-------------------------------------------------------------------------------
(* Dates as text *)

Digits == <<"0", "1", "2", "3", "4", "5", "6", "7", "8", "9">>
DayNames == [short |-> <<"Sun", "Mon", "Tue", "Wed", "Thu", "Fri", "Sat">>,
             long  |-> <<"Sunday", "Monday", "Tuesday", "Wednesday", "Thursday", "Friday", "Saturday">>]
MonthNames == [short |-> <<"Jan", "Feb", "Mar", "Apr", "May", "Jun", "Jul", "Aug", "Sep", "Oct",
                           "Nov", "Dec">>,
               long  |-> <<"January", "February", "March", "April", "May", "June", "July", "August",
                           "September", "October", "November", "December">>]
Letters == {"d", "D", "o", "m", "M", "y"}
Literal(c) == [letter |-> "literal", twice |-> FALSE, char |-> c]

(* The walk along a format that the three functions share: a letter counts *)
(* double if it is followed by itself, what is quoted is literal.          *)
Tokens[format \in Seq(STRING), literal \in BOOLEAN] ==
  IF format = <<>> THEN <<>>
  ELSE LET c == Head(format)
           twice == Len(format) > 1 /\ format[2] = c
           rest == SubSeq(format, IF twice THEN 3 ELSE 2, Len(format))
       IN  IF c = "'" THEN IF twice THEN <<Literal(c)>> \o Tokens[rest, literal]
                           ELSE Tokens[rest, ~literal]
           ELSE IF ~literal /\ c \in Letters
             THEN <<[letter |-> c, twice |-> twice, char |-> c]>> \o Tokens[rest, literal]
           ELSE <<Literal(c)>> \o Tokens[Tail(format), literal]

Number[n \in Nat, len \in Int] ==
  IF n < 10 /\ len < 2 THEN <<Digits[n + 1]>>
  ELSE Append(Number[n \div 10, len - 1], Digits[(n % 10) + 1])

formatToken(t, date) ==
  LET len(n) == IF t.twice THEN n ELSE 1
  IN  CASE t.letter = "d" -> Number[date.d, len(2)]
        [] t.letter = "o" -> Number[Time(date) - Time(NewDate[date.y, 0, 0]), len(3)]
        [] t.letter = "m" -> Number[date.m + 1, len(2)]
        [] t.letter = "y" -> IF t.twice THEN Number[date.y, 1] ELSE Number[date.y % 100, 2]
        [] t.letter = "D" -> <<(IF t.twice THEN DayNames.long ELSE DayNames.short)[getDay(date) + 1]>>
        [] t.letter = "M" -> <<(IF t.twice THEN MonthNames.long ELSE MonthNames.short)[date.m + 1]>>
        [] t.letter = "literal" -> <<t.char>>

formatDate(format, date) ==
  FlattenSeq([i \in DOMAIN Tokens[format, FALSE] |-> formatToken(Tokens[format, FALSE][i], date)])

(* The characters that may be typed; with a name all of them.              *)
Anything == {"anything"}
possibleChars(format) ==
  LET tokens == Range(Tokens[format, FALSE])
  IN  IF \E t \in tokens : t.letter \in {"D", "M"} THEN Anything
      ELSE UNION {IF t.letter \in {"d", "m", "y"} THEN Range(Digits) ELSE {t.char} : t \in tokens}

(* What parseDate knows so far.                                            *)
NothingRead(text) == [rest |-> text, y |-> -1, m |-> -1, d |-> -1, doy |-> -1, thrown |-> FALSE]

(* The number at the head of the rest, of as many digits as it may have.   *)
getNumber(s, t, field) ==
  LET size == CASE t.letter = "y" -> IF t.twice THEN 4 ELSE 2
                [] t.letter = "o" -> 3
                [] t.letter \in {"d", "m"} -> 2
      least == IF t.letter = "y" THEN size ELSE 1
      len == Max({0} \cup {n \in 1..size : n <= Len(s.rest) /\ \A i \in 1..n : s.rest[i] \in Range(Digits)})
      value == FoldLeft(LAMBDA v, c : 10 * v + IndexFirstSubSeq(<<c>>, Digits) - 1, 0, SubSeq(s.rest, 1, len))
  IN  IF len < least THEN [s EXCEPT !.thrown = TRUE]
      ELSE [s EXCEPT ![field] = value, !.rest = SubSeq(s.rest, len + 1, Len(s.rest))]

getName(s, names, field) ==
  IF s.rest = <<>> \/ Head(s.rest) \notin Range(names) THEN [s EXCEPT !.thrown = TRUE]
  ELSE LET t == [s EXCEPT !.rest = Tail(@)]
       IN  IF field = "m" THEN [t EXCEPT !.m = CHOOSE i \in DOMAIN names : names[i] = Head(s.rest)] ELSE t

parseToken(s, t) ==
  IF s.thrown THEN s
  ELSE CASE t.letter = "d" -> getNumber(s, t, "d")
         [] t.letter = "o" -> getNumber(s, t, "doy")
         [] t.letter = "m" -> getNumber(s, t, "m")
         [] t.letter = "y" -> getNumber(s, t, "y")
         [] t.letter = "D" -> getName(s, IF t.twice THEN DayNames.long ELSE DayNames.short, "day")
         [] t.letter = "M" -> getName(s, IF t.twice THEN MonthNames.long ELSE MonthNames.short, "m")
         [] t.letter = "literal" -> IF s.rest = <<>> \/ Head(s.rest) # t.char THEN [s EXCEPT !.thrown = TRUE]
                                    ELSE [s EXCEPT !.rest = Tail(@)]

(* shortYearCutoff "+10"                                                   *)
Century(y) ==
  IF y = -1 THEN TodaysDate.y
  ELSE IF y >= 100 THEN y
  ELSE y + TodaysDate.y - (TodaysDate.y % 100) - IF y <= (TodaysDate.y % 100) + 10 THEN 0 ELSE 100

(* parseDate; NoDay stands for what it throws.  A day of the year is      *)
(* counted off month by month, to a month that the year may not have.      *)
parseDate(format, text) ==
  LET s == FoldLeft(parseToken, NothingRead(text), Tokens[format, FALSE])
      y == Century(s.y)
      date == IF s.doy > -1 THEN NewDate[y, 0, s.doy] ELSE NewDate[y, s.m - 1, s.d]
      exists == IF s.doy > -1 THEN date.y = y ELSE date = [y |-> y, m |-> s.m - 1, d |-> s.d]
      extra == s.rest # <<>> /\ Head(s.rest) # " "
  IN  IF s.thrown \/ extra \/ ~exists THEN NoDay ELSE date

-------------------------------------------------------------------------------

CalendarInit == options = NoOptions /\ selected = NoDay /\ draw = NoDay /\ redrawn = FALSE

(* An inline calendar is attached, or that of an empty field is shown: it  *)
(* selects its default date.                                               *)
AttachCalendar ==
  /\ options = NoOptions
  /\ options' \in Calendars
  /\ selected' = restrictDate(TodaysDate)'
  /\ draw' = drawnAt(selected)'
  /\ UNCHANGED redrawn

(* Another day is selected and its month drawn.                            *)
Becomes(date) ==
  /\ date.y \in Years
  /\ selected' = date /\ draw' = drawnAt(date) /\ redrawn' = FALSE
  /\ UNCHANGED options

(* The calendar is drawn as it stands, which moves it by showCurrentAtPos  *)
(* again.                                                                  *)
DrawAgain ==
  /\ drawnAt(draw).y \in Years
  /\ draw' = drawnAt(draw) /\ redrawn' = TRUE
  /\ UNCHANGED options

(* refresh *)
RefreshCalendar == DrawAgain /\ UNCHANGED selected

(* The keys of a field: a day or a week, page up and down a month or a     *)
(* year.                                                                   *)
KeyMove(offset, period) == ~options.inline /\ Becomes(adjustInstDate(selected, offset, period))

(* The links prev and next, with stepMonths 1.                             *)
FollowLink(offset) == canAdjustMonth(offset) /\ Becomes(adjustInstDate(selected, offset, "M"))

GotoToday == Becomes(adjustInstDate(TodaysDate, 0, ""))

(* The selects set the year or the month of the day that is selected,      *)
(* which need not be in the first month drawn.                             *)
SelectMonth(m) == Becomes(adjustInstDate([selected EXCEPT !.m = m], 0, ""))
SelectYear(y) == Becomes(adjustInstDate([selected EXCEPT !.y = y], 0, ""))

(* _selectDay: an inline calendar is drawn again, at the month it was;     *)
(* that of a field closes, and shows the month of the day when it opens.   *)
ClickDate(date) ==
  IF options.inline THEN selected' = date /\ DrawAgain ELSE Becomes(date)

SetByOffset(steps) == Becomes(restrictDate(determineDate(TodaysDate, steps)))

Offsets == {<<[n |-> 1, unit |-> "m"]>>, <<[n |-> -1, unit |-> "y"], [n |-> 2, unit |-> "w"]>>,
            <<[n |-> -1, unit |-> "m"], [n |-> 3, unit |-> "d"]>>}

CalendarMoves ==
  \/ \E offset \in {-1, 1} :
       \/ \E period \in {"D", "M", "Y"} : KeyMove(offset, period)
       \/ KeyMove(7 * offset, "D")
       \/ FollowLink(offset)
  \/ GotoToday \/ RefreshCalendar
  \/ \E m \in monthOptions : SelectMonth(m)
  \/ \E y \in yearOptions : SelectYear(y)
  \/ \E i \in Months : \E date \in Clickable(i) : ClickDate(date)
  \/ \E steps \in Offsets : SetByOffset(steps)

CalendarNext == AttachCalendar \/ (options # NoOptions /\ CalendarMoves)

-------------------------------------------------------------------------------

(* The date that is selected exists and is allowed.                        *)
CalendarTypeOK ==
  IF options = NoOptions THEN selected = NoDay
  ELSE /\ options \in Calendars
       /\ selected.m \in 0..11 /\ selected.d \in 1..Length(selected.y, selected.m)
       /\ isInRange(selected)
       /\ draw.m \in 0..11 /\ draw.d = 1 /\ redrawn \in BOOLEAN

(* Every day of a month that is drawn has one place in its table, in the   *)
(* column of its day of the week, and no row is without one ...            *)
GridIsComplete ==
  options # NoOptions =>
    \A i \in Months :
      LET grid == Grid(i)
          month == Drawn(i)
          cells == {p \in (DOMAIN grid) \X (1..7) : grid[p[1]][p[2]].m = month.m}
      IN  /\ {grid[p[1]][p[2]] : p \in cells} =
               {[month EXCEPT !.d = d] : d \in 1..Length(month.y, month.m)}
          /\ Cardinality(cells) = Length(month.y, month.m)
          /\ \A p \in cells : getDay(grid[p[1]][p[2]]) = (p[2] - 1 + options.firstDay) % 7
          /\ options.months = 1 => \A r \in DOMAIN grid : \E c \in 1..7 : <<r, c>> \in cells

(* ... and the month of the day that is selected is drawn.  A day clicked  *)
(* in another month than its own stays in sight; but where drawing moves   *)
(* the calendar, drawing it again moves it away.                           *)
SelectedIsDrawn ==
  options # NoOptions =>
    IF ~redrawn THEN \E i \in Months : Drawn(i) = [selected EXCEPT !.d = 1]
    ELSE options.at = 0 => \E i \in Months : \E row \in Range(Grid(i)) : selected \in Range(row)

(* A link leads on exactly where there are days that may be selected; from *)
(* one limit to the other none is out of reach.                            *)
LinksReachAll ==
  options # NoOptions /\ options.months = 1 /\ options.at = 0 =>
    /\ canAdjustMonth(-1) <=> options.min = NoDay \/ Earlier(options.min, Drawn(1))
    /\ canAdjustMonth(1) <=> options.max = NoDay \/ Time(Drawn(2)) <= Time(options.max)

(* A month of the select is shown once it is selected, in the year that is *)
(* drawn, which is that of the day selected unless that was clicked in     *)
(* another month.                                                          *)
SelectShowsMonth ==
  options # NoOptions /\ options.months = 1 /\ options.at = 0 /\ ~redrawn =>
    LET shown(date) == drawnAt(adjustInstDate(date, 0, ""))
    IN  \A m \in monthOptions : shown([selected EXCEPT !.m = m]) = [draw EXCEPT !.m = m]

(* The keys for a month and a year stay with the month they lead to.       *)
KeysKeepMonth ==
  options # NoOptions /\ options.min = NoDay /\ options.max = NoDay =>
    \A n \in {-1, 1} : /\ adjustInstDate(selected, n, "M").m = (selected.m + n) % 12
                       /\ adjustInstDate(selected, n, "Y").m = selected.m

(* ISO 8601: the first week of a year is that of its first Thursday, and   *)
(* weeks begin on Monday.                                                  *)
WeeksAreISO ==
  options # NoOptions =>
    LET thursday == Plus(selected, 3 - ((getDay(selected) + 6) % 7))
    IN  iso8601Week(selected) =
          Cardinality({n \in 0..53 : Plus(thursday, -7 * n).y = thursday.y})

(* A date is read as it is written; what no month has is refused.          *)
ReadAsWritten ==
  options # NoOptions =>
    \A format \in Formats :
      /\ parseDate(format, formatDate(format, selected)) = selected
      /\ "o" \notin Range(format) =>
           \A d \in 29..32 :
             LET date == [selected EXCEPT !.d = d]
             IN  parseDate(format, formatDate(format, date)) =
                   IF d <= Length(date.y, date.m) THEN date ELSE NoDay

(* And it can be typed.                                                    *)
CanBeTyped ==
  options # NoOptions =>
    \A format \in Formats :
      \/ possibleChars(format) = Anything
      \/ Range(formatDate(format, selected)) \subseteq possibleChars(format)
=============================================================================
