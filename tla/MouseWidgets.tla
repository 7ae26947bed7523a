----------------------------- MODULE MouseWidgets -----------------------------
(***************************************************************************)
(* "ui.mouse", under draggable, resizable, sortable, selectable and slider *)
(* of jQuery UI: a press becomes a drag after a delay and a distance, and  *)
(* the click the browser makes of a drag is swallowed.  Two widgets, one   *)
(* in the other, share the page and the variable mouseHandled.             *)
(***************************************************************************)
EXTENDS Naturals

CONSTANTS Inner, Outer,    \* the two widgets
          Apart           \* the part of the page in neither of them

ASSUME MouseAssumption == Inner # Outer /\ Apart \notin {Inner, Outer}

MouseParts == {Inner, Outer}
Places == MouseParts \cup {Apart}
Nobody == Apart           \* no widget: nobody took the press, nobody swallowed the click

VARIABLE mouse      \* the buttons, mouseHandled and the widgets, see MouseInit

(* What a widget keeps between two presses: all else is set by _mouseDown. *)
(* Held: has the delay of this very press passed?  (For a property only.)  *)
MouseIdle == [started |-> FALSE, moved |-> FALSE, met |-> TRUE, held |-> TRUE, timers |-> 0,
         listening |-> FALSE, target |-> Apart, ignoring |-> FALSE, swallow |-> {}, alive |-> TRUE]

NoClick == [seen |-> FALSE, by |-> Nobody, took |-> Nobody, drag |-> FALSE]

MouseInit ==
  \E delay, distance \in BOOLEAN :
    mouse = [down |-> {}, handled |-> FALSE, w |-> [i \in MouseParts |-> MouseIdle],
             delay |-> delay, distance |-> distance,
             took |-> Nobody, from |-> Apart,       \* the widget and the place of the press
             drag |-> FALSE,                         \* was it a drag that ended where it began?
             click |-> NoClick]                      \* the click of the last step

-------------------------------------------------------------------------------

(* Mutant: the timer of the delay goes on. *)
mouseUpTicking(m, i, place) ==
  LET w == m.w[i]
      same == w.started /\ place = w.target
  IN  [m EXCEPT !.handled = FALSE, !.drag = same,
                !.w[i] = [MouseIdle EXCEPT !.alive = w.alive, !.timers = w.timers,
                                      !.swallow = w.swallow \cup IF same THEN {place} ELSE {}]]

(* _mouseUp: a drag that ends where it began would be a click.             *)
mouseUp(m, i, place) ==
  LET w == m.w[i]
      same == w.started /\ place = w.target
  IN  [m EXCEPT !.handled = FALSE, !.drag = same,
                !.w[i] = [MouseIdle EXCEPT !.alive = w.alive,
                                      !.swallow = w.swallow \cup IF same THEN {place} ELSE {}]]

(* _mouseDown.  Takes: left button, not on an element to be let alone, and *)
(* _mouseCapture agrees.  Starts: does _mouseStart agree?  Its branch for  *)
(* a widget that is started already is never reached: mouseHandled is then *)
(* set.                                                                    *)
mouseDown(m, i, place, takes, starts) ==
  LET atOnce == ~m.delay /\ ~m.distance
      w == m.w[i]
      pressed == [MouseIdle EXCEPT !.met = ~m.delay, !.held = ~m.delay, !.target = place,
                              !.timers = w.timers + IF m.delay THEN 1 ELSE 0,
                              !.started = atOnce, !.listening = TRUE, !.swallow = w.swallow \ {place}]
  IN  IF m.handled \/ ~w.alive \/ ~takes \/ (atOnce /\ ~starts) THEN m
      ELSE [m EXCEPT !.handled = TRUE, !.took = i, !.w[i] = pressed]

(* _mouseMove.  A move without a button ends the drag whose end was not    *)
(* reported, unless a key has once spoilt event.which.                     *)
mouseMove(m, i, place, far, keys, starts) ==
  LET w == m.w[i]
      missed == w.moved /\ m.down = {}
      spoilt == w.ignoring \/ (missed /\ keys)
      seen == [m EXCEPT !.w[i].ignoring = spoilt, !.w[i].moved = @ \/ m.down # {}]
      begins == ~w.started /\ w.met /\ (far \/ ~m.distance)
  IN  IF ~w.listening THEN m
      ELSE IF missed /\ ~spoilt THEN mouseUp(m, i, place)
      ELSE IF begins /\ starts THEN [seen EXCEPT !.w[i].started = TRUE]
      ELSE IF begins THEN mouseUp(seen, i, place)
      ELSE seen

(* The click handlers, from the inside out; the first that swallows it     *)
(* keeps it from the others.                                               *)
clicked(m, place) ==
  LET at == IF place = Inner THEN MouseParts ELSE {Outer}
      by == {i \in at : m.w[i].alive /\ place \in m.w[i].swallow}
      who == IF Inner \in by THEN Inner ELSE IF Outer \in by THEN Outer ELSE Nobody
      seen == [m EXCEPT !.click = [seen |-> TRUE, by |-> who, took |-> m.took, drag |-> m.drag]]
  IN  IF who = Nobody THEN seen ELSE [seen EXCEPT !.w[who].swallow = @ \ {place}]

-------------------------------------------------------------------------------

(* A button goes down in a widget; the event passes the inner one first.   *)
PressPart(place, left, take, start) ==
  /\ left \notin mouse.down
  /\ LET m == [mouse EXCEPT !.down = @ \cup {left}, !.click = NoClick,
                            !.drag = IF left THEN FALSE ELSE @,
                            !.took = IF left THEN Nobody ELSE @, !.from = IF left THEN place ELSE @]
         inside == IF place = Inner THEN mouseDown(m, Inner, place, left /\ Inner \in take, start) ELSE m
     IN  mouse' = mouseDown(inside, Outer, place, left /\ Outer \in take, start)

MoveMouse(place, far, keys, start) ==
  LET m == [mouse EXCEPT !.click = NoClick]
  IN  mouse' = mouseMove(mouseMove(m, Inner, place, far, keys, start), Outer, place, far, keys, start)

DelayPasses(i) ==
  /\ mouse.w[i].timers > 0
  /\ mouse' = [mouse EXCEPT !.w[i].met = TRUE, !.w[i].timers = @ - 1, !.click = NoClick,
                            !.w[i].held = @ \/ mouse.w[i].timers = 1]

Up(m, left) ==
  [m EXCEPT !.down = @ \ {left}, !.drag = IF left THEN FALSE ELSE @,
            !.took = IF left THEN Nobody ELSE @, !.from = IF left THEN Apart ELSE @]

(* A button goes up in the window.  The page's own handler of mouseup is   *)
(* the first; a click follows on the element of the press, mostly.         *)
Release(place, left, clicks) ==
  LET m == [mouse EXCEPT !.handled = FALSE, !.click = NoClick]
      end(n, i) == IF n.w[i].listening THEN mouseUp(n, i, place) ELSE n
      after == end(end(m, Inner), Outer)
  IN  /\ left \in mouse.down
      /\ clicks => left /\ place = mouse.from /\ place # Apart
      /\ mouse' = Up(IF clicks THEN clicked(after, place) ELSE after, left)

(* A button goes up out of the window, which nobody is told.               *)
MissedRelease ==
  \E left \in mouse.down : mouse' = [Up(mouse, left) EXCEPT !.click = NoClick]

(* _mouseDestroy, which leaves the timer and mouseHandled.                 *)
DestroyPart(i) ==
  /\ mouse.w[i].alive
  /\ mouse' = [mouse EXCEPT !.w[i].alive = FALSE, !.w[i].listening = FALSE, !.click = NoClick]

MouseNext ==
  \/ \E place \in MouseParts, left, start \in BOOLEAN, take \in SUBSET MouseParts :
       PressPart(place, left, take, start)
  \/ \E place \in Places, far, keys, start \in BOOLEAN : MoveMouse(place, far, keys, start)
  \/ \E i \in MouseParts : DelayPasses(i) \/ DestroyPart(i)
  \/ \E place \in Places, left, clicks \in BOOLEAN : Release(place, left, clicks)
  \/ MissedRelease

-------------------------------------------------------------------------------

(* One timer at most runs for a widget.                                    *)
MouseTypeOK ==
  /\ mouse.down \subseteq BOOLEAN /\ mouse.handled \in BOOLEAN
  /\ {mouse.took, mouse.from} \subseteq Places
  /\ \A i \in MouseParts :
       mouse.w[i].timers \in 0..1 /\ mouse.w[i].target \in Places /\ mouse.w[i].swallow \subseteq Places

(* "Don't let more than one widget handle mouseStart": a press belongs to  *)
(* one widget, and when nobody has it nothing is dragged, listened for or  *)
(* timed any more.                                                         *)
OneHasThePress ==
  LET busy == {i \in MouseParts : mouse.w[i].alive /\
                 (mouse.w[i].listening \/ mouse.w[i].started \/ mouse.w[i].timers > 0)}
  IN  \A i \in busy : mouse.handled /\ busy = {i} /\ mouse.w[i].listening

(* A drag begins only when the delay of this press has passed, not that of *)
(* an earlier one that was let go in time.                                 *)
DelayIsObeyed == \A i \in MouseParts : mouse.w[i].started => mouse.w[i].held

(* The click after a press that a widget took goes through if the press    *)
(* was no drag, and not if it was one that ended where it began, whatever  *)
(* clicks failed to come before.  (A widget that did not take the press    *)
(* may still swallow it.)                                                  *)
ClickOrDrag ==
  LET c == mouse.click
  IN  c.seen /\ c.took # Nobody /\ mouse.w[c.took].alive =>
        /\ c.by = c.took => c.drag
        /\ c.by = Nobody => ~c.drag
=============================================================================
