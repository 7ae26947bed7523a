-------------------------------- MODULE Tooltip --------------------------------
(***************************************************************************)
(* The tooltips of jQuery UI ("ui.tooltip") for an element and one inside  *)
(* of it, both with a title and both within a widget.  What a tooltip      *)
(* shows may have to be asked for, and the answer may come late.  While a  *)
(* tooltip is to be seen the browser must not show the title too, so the   *)
(* widget takes titles away and has to give them back.                     *)
(***************************************************************************)
EXTENDS FiniteSets

CONSTANTS Parent, Child,    \* the two elements
          Off               \* the rest of the page

ASSUME TooltipAssumption == Cardinality({Parent, Child, Off}) = 3

Owners == {Parent, Child}
Around(e) == IF e = Child THEN Owners ELSE {e} \ {Off}  \* the element and those around it

VARIABLE tip        \* titles, tooltips, pointer and focus, see TooltipInit

TooltipInit ==
  \E async \in BOOLEAN :
    tip = [async    |-> async,                              \* does the content come by an answer?
           title    |-> [e \in Owners |-> "own"],           \* or "empty", or "none": no attribute
           saved    |-> [e \in Owners |-> "none"],          \* data ui-tooltip-title
           open     |-> {},                                 \* data ui-tooltip-open
           shown    |-> {},                                 \* data ui-tooltip-id
           asked    |-> {},                                 \* answers to come, those of a kind as one
           closers  |-> [e \in Owners |-> {}],              \* the events that close
           parents  |-> {},                                 \* titles kept away during a hover
           disabled |-> FALSE,
           silenced |-> {},                                 \* disabledTitles
           pointer  |-> Off,
           focus    |-> Off]

-------------------------------------------------------------------------------

(* Mutant: the titles around the element are given back by no event. *)
closeTipOnly(t, e, event) ==
  IF e \notin t.shown THEN [t EXCEPT !.open = @ \ {e}]
  ELSE [t EXCEPT !.title[e] = IF t.saved[e] = "own" THEN "own" ELSE @,
                 !.shown = @ \ {e}, !.open = @ \ {e}, !.closers[e] = {}, !.parents = {}]

(* close: without a tooltip only the mark that one is to come is removed.  *)
(* The titles around are given back when the mouse leaves.                 *)
closeTip(t, e, event) ==
  IF e \notin t.shown THEN [t EXCEPT !.open = @ \ {e}]
  ELSE [t EXCEPT !.title = [p \in Owners |->
                              IF (p = e /\ t.saved[e] = "own") \/ (event = "mouseleave" /\ p \in t.parents)
                                THEN "own" ELSE @[p]],
                 !.shown = @ \ {e}, !.open = @ \ {e}, !.closers[e] = {},
                 !.parents = IF event = "mouseleave" THEN {} ELSE @]

(* _open: the title goes, and the tooltip is there.                        *)
show(t, e, event) ==
  IF e \in t.shown THEN t
  ELSE [t EXCEPT !.shown = @ \cup {e},
                 !.title[e] = IF @ = "none" THEN @ ELSE IF event = "mouseover" THEN "empty" ELSE "none"]

(* A hover takes away tooltip and title of the elements around.            *)
killAround(t, e) ==
  LET closed == IF e = Child /\ Parent \in t.open THEN closeTip(t, Parent, "blur") ELSE t
  IN  IF e = Child /\ closed.title[Parent] = "own"
        THEN [closed EXCEPT !.parents = @ \cup {Parent}, !.title[Parent] = "empty"]
      ELSE closed

(* _registerCloseHandlers *)
registerCloseHandlers(e, event) == IF event = "mouseover" THEN {"mouseleave"} ELSE {"focusout"}

(* open and _updateContent.  Without an answer to wait for the content is  *)
(* the title.                                                              *)
open(t, e, event) ==
  LET marked == [t EXCEPT !.saved[e] = IF t.title[e] = "own" THEN "own" ELSE @, !.open = @ \cup {e}]
      alone == IF event = "mouseover" THEN killAround(marked, e) ELSE marked
      ready == [alone EXCEPT !.closers[e] = @ \cup registerCloseHandlers(e, event)]
  IN  IF e \in t.shown THEN t
      ELSE IF t.async THEN [ready EXCEPT !.asked = @ \cup {<<e, event>>}]
      ELSE IF t.title[e] = "own" THEN show(ready, e, event)
      ELSE ready

(* The element an event is for: the innermost that has a title.            *)
targetOf(t, e) ==
  IF e = Child /\ t.title[Child] # "none" THEN {Child}
  ELSE IF e # Off /\ t.title[Parent] # "none" THEN {Parent}
  ELSE {}

tipOpened(t, e, event) ==
  IF t.disabled \/ targetOf(t, e) = {} THEN t ELSE open(t, CHOOSE x \in targetOf(t, e) : TRUE, event)

(* An event at the elements that listen for it, the inner one first.       *)
closing(t, elements, listens, event) ==
  LET hears(s, e) == e \in elements /\ s.closers[e] \cap listens # {}
      inner == IF hears(t, Child) THEN closeTip(t, Child, event) ELSE t
  IN  IF hears(inner, Parent) THEN closeTip(inner, Parent, event) ELSE inner

-------------------------------------------------------------------------------

(* The mouse leaves elements, then comes over one.                         *)
PointerTo(e) ==
  LET t == [tip EXCEPT !.pointer = e]
      left == closing(t, Around(tip.pointer) \ Around(e), {"mouseleave"}, "mouseleave")
  IN  e # tip.pointer /\ tip' = tipOpened(left, e, "mouseover")

(* focusout, which bubbles, and focusin.                                   *)
FocusTo(e) ==
  LET left == closing([tip EXCEPT !.focus = e], Around(tip.focus), {"focusout"}, "focusout")
  IN  e # tip.focus /\ tip' = tipOpened(left, e, "focusin")

EscapeTip ==
  /\ tip.focus # Off
  /\ tip' = closing(tip, Around(tip.focus), {"mouseleave", "focusout"}, "keyup")

(* The answer is shown if the tooltip was not closed in between.           *)
AnswerTip(e, event) ==
  /\ <<e, event>> \in tip.asked
  /\ LET t == [tip EXCEPT !.asked = @ \ {<<e, event>>}]
     IN  tip' = IF e \in t.open THEN show(t, e, event) ELSE t

(* _disable: titles are taken from all elements, but what is still to come *)
(* is not called off.                                                      *)
DisableTips ==
  LET inner == IF Child \in tip.shown THEN closeTip(tip, Child, "blur") ELSE tip
      t == IF Parent \in tip.shown THEN closeTip(inner, Parent, "blur") ELSE inner
      titled == {e \in Owners : t.title[e] # "none"}
  IN  /\ ~tip.disabled
      /\ tip' = [t EXCEPT !.disabled = TRUE, !.silenced = titled,
                          !.saved = [e \in Owners |-> IF e \in titled THEN t.title[e] ELSE @[e]],
                          !.title = [e \in Owners |-> "none"]]

(* _enable *)
EnableTips ==
  /\ tip.disabled
  /\ tip' = [tip EXCEPT !.disabled = FALSE, !.silenced = {},
                        !.title = [e \in Owners |-> IF e \in tip.silenced /\ tip.saved[e] = "own"
                                                      THEN "own" ELSE @[e]]]

TooltipNext ==
  \/ \E e \in Owners \cup {Off} : PointerTo(e) \/ FocusTo(e)
  \/ \E e \in Owners, event \in {"mouseover", "focusin"} : AnswerTip(e, event)
  \/ EscapeTip \/ DisableTips \/ EnableTips

-------------------------------------------------------------------------------

(* A tooltip is open or being asked for only where it is marked.           *)
TooltipTypeOK ==
  /\ \A e \in Owners : {tip.title[e], tip.saved[e]} \subseteq {"own", "empty", "none"}
  /\ tip.shown \subseteq tip.open /\ tip.open \subseteq Owners
  /\ {tip.pointer, tip.focus} \subseteq Owners \cup {Off}

(* No tooltip is stuck: one that is to be seen is where the pointer or the *)
(* focus is, and closes when that goes, although the answer it shows may   *)
(* be one to an earlier visit.                                             *)
ShownForCause ==
  \A e \in tip.shown :
    \/ "mouseleave" \in tip.closers[e] /\ e \in Around(tip.pointer)
    \/ "focusout" \in tip.closers[e] /\ e \in Around(tip.focus)

(* A title that was taken away comes back, if no answer is waited for:     *)
(* with nothing open each element has its own again, save one around an    *)
(* element whose tooltip was not closed by the mouse; that is still kept,  *)
(* for the next time the mouse leaves.  (An answer may come for an element *)
(* whose title a hover further in has taken away and given back: then the  *)
(* title is lost.)                                                         *)
TitleComesBack ==
  tip.open = {} /\ ~tip.disabled /\ tip.pointer = Off /\ ~tip.async =>
    \A e \in Owners : tip.title[e] = "own" \/ e \in tip.parents

(* A hover shows the innermost tooltip alone: if both are to be seen one   *)
(* of them is there for the focus.                                         *)
HoverShowsOne ==
  Owners \subseteq tip.shown => \E e \in Owners : "focusout" \in tip.closers[e]
=============================================================================
