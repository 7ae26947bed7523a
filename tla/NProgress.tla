------------------------------ MODULE NProgress ------------------------------
(***************************************************************************)
(* The progress bar of every page (static/js/nprogress.js), as operators   *)
(* on a bar: its status in thousandths, or Null; whether its element is in *)
(* the document; and the timers that are set.  Every timer is set for the  *)
(* same 200 ms (speed and trickleSpeed), so they fire in the order in      *)
(* which they were set and form one queue.                                 *)
(*                                                                         *)
(* The queue of the code never holds anything: next() takes a function off *)
(* it before it runs it, so a function is run as soon as it is queued, and *)
(* the timers that only call next() find nothing.  Neither is kept.        *)
(***************************************************************************)
EXTENDS Integers, Sequences

Null == 0           \* NProgress.status = null: no progress under way
Minimum == 80       \* Settings.minimum
Full == 1000
Cap == 994          \* the farthest a trickle gets

Bar == [status : {Null} \cup Minimum..Cap, shown : BOOLEAN,
        timers : Seq({"trickle", "fade", "remove"})]

NoBar == [status |-> Null, shown |-> FALSE, timers |-> <<>>]

clamp(n, min, max) == IF n < min THEN min ELSE IF n > max THEN max ELSE n

(* Mutant: the bar is rendered only when the progress begins. *)
renderOnce(bar) == [bar EXCEPT !.shown = @ \/ bar.status = Null]

(* render: an element that is there stays. *)
render(bar) == [bar EXCEPT !.shown = TRUE]

(* NProgress.remove: the element goes, whatever the status. *)
removeBar(bar) == [bar EXCEPT !.shown = FALSE]

after(bar, timer) == [bar EXCEPT !.timers = Append(@, timer)]

(* set(n), with n in thousandths; 1 is the end, after which the bar fades. *)
set(bar, n) ==
  LET clamped == clamp(n, Minimum, Full)
      rendered == [render(bar) EXCEPT !.status = IF clamped = Full THEN Null ELSE clamped]
  IN  IF clamped = Full THEN after(rendered, "fade") ELSE rendered

(* start: nothing is set back, but one more loop of trickles begins. *)
start(bar) == after(IF bar.status = Null THEN set(bar, 0) ELSE bar, "trickle")

(* inc(), without an amount. *)
amount(n) ==
  CASE n < 200              -> 100
    [] n >= 200 /\ n < 500  -> 40
    [] n >= 500 /\ n < 800  -> 20
    [] n >= 800 /\ n < 990  -> 5
    [] OTHER                -> 0

inc(bar) ==
  IF bar.status = Null THEN start(bar)
  ELSE set(bar, clamp(bar.status + amount(bar.status), 0, Cap))

(* done(): a random step first, which the end overwrites at once. *)
done(bar) == IF bar.status = Null THEN bar ELSE set(inc(bar), Full)

(* The timer that was set first fires. *)
fire(bar) ==
  LET rest == [bar EXCEPT !.timers = Tail(@)]
  IN  CASE Head(bar.timers) = "trickle" ->
             IF bar.status = Null THEN rest ELSE after(inc(rest), "trickle")
        [] Head(bar.timers) = "fade"    -> after(rest, "remove")
        [] Head(bar.timers) = "remove"  -> removeBar(rest)
=============================================================================
