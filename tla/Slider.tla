--------------------------------- MODULE Slider ---------------------------------
(***************************************************************************)
(* The slider of jQuery UI ("ui.slider") with one or two handles, by mouse *)
(* (delay and distance as they are by default, 0) and by keyboard.  With   *)
(* the option range the two handles may meet but not pass each other.      *)
(* Values are integers from the minimum 0 on; positions on the page are    *)
(* the values under them.                                                  *)
(***************************************************************************)
EXTENDS Integers

CONSTANTS Limit,        \* the largest maximum
          Steps         \* values of the option step

ASSUME SliderAssumption == Limit \in Nat \ {0} /\ Steps \subseteq 1..Limit

Handles == {1, 2}
None == 0
numPages == 5

VARIABLE slider     \* the options and the interaction, see SliderInit

-------------------------------------------------------------------------------

(* _calculateNewMax: the largest multiple of the step that is not above    *)
(* the option.                                                             *)
alignedMax(s) == (s.max \div s.step) * s.step

(* _trimAlignValue, of a value counted in fifths (the paging keys go by a  *)
(* fifth of the way).                                                      *)
trimAlign(s, fifths) ==
  LET step == numPages * s.step
      rest == fifths % step
  IN  IF fifths <= 0 THEN 0
      ELSE IF fifths >= numPages * alignedMax(s) THEN alignedMax(s)
      ELSE (fifths - rest + IF 2 * rest >= step THEN step ELSE 0) \div numPages

aligned(s, v) == trimAlign(s, numPages * v)
valueOf(s, i) == aligned(s, s.vals[i])
Other(i) == 3 - i

SliderInit ==
  \E two, range \in BOOLEAN, step \in Steps, max \in 1..Limit :
    /\ step <= max
    /\ range => two
    /\ slider = [vals     |-> [i \in Handles |-> 0],
                 two      |-> two,
                 range    |-> range,
                 step     |-> step,
                 max      |-> max,
                 last     |-> None,         \* _lastChangedValue
                 mouse    |-> None,         \* the handle that slides by mouse
                 key      |-> FALSE,        \* _keySliding
                 focus    |-> 1,
                 told     |-> [i \in Handles |-> 0],    \* by the last event change
                 orderly  |-> TRUE,         \* was each change made by one slide after the other?
                 byMouse  |-> TRUE,         \* or by the option values, and none by a key?
                 limited  |-> FALSE]        \* have the limits changed?

There(s) == IF s.two THEN Handles ELSE {1}
Idle(s) == s.mouse = None /\ ~s.key

(* _change *)
change(s, i) ==
  IF Idle(s) THEN [s EXCEPT !.last = i, !.told[i] = valueOf(s, i)] ELSE s

(* _slide, which the page may refuse; the handles of a range do not pass   *)
(* each other.                                                             *)
slide(s, i, v, allow) ==
  LET new == IF ~s.range THEN v
             ELSE IF i = 1 THEN (IF v < valueOf(s, Other(i)) THEN v ELSE valueOf(s, Other(i)))
             ELSE (IF v > valueOf(s, Other(i)) THEN v ELSE valueOf(s, Other(i)))
  IN  IF new = valueOf(s, i) \/ ~allow THEN s
      ELSE change([s EXCEPT !.vals[i] = aligned(s, new)], i)

Away(s, i, v) == IF valueOf(s, i) > v THEN valueOf(s, i) - v ELSE v - valueOf(s, i)

(* The handle for a press: the closest; of two as close the one that was   *)
(* changed last, and the second at the minimum.                            *)
closest(s, v) ==
  IF /\ s.two
     /\ \/ Away(s, 2, v) < Away(s, 1, v)
        \/ Away(s, 2, v) = Away(s, 1, v) /\ (s.last = 2 \/ valueOf(s, 2) = 0)
  THEN 2 ELSE 1

-------------------------------------------------------------------------------

(* _mouseCapture: the page may refuse the start.  A press on a handle      *)
(* (hovered) does not move it.                                             *)
PressSlider(v, hovered, allow) ==
  LET s == slider
      i == closest(s, aligned(s, v))
      begun == [s EXCEPT !.mouse = i, !.focus = i, !.orderly = @ /\ ~s.key]
  IN  /\ s.mouse = None
      /\ slider' = IF hovered THEN begun ELSE slide(begun, i, aligned(s, v), allow)

DragSlider(v, allow) ==
  /\ slider.mouse # None
  /\ slider' = slide(slider, IF slider.two THEN slider.mouse ELSE 1, aligned(slider, v), allow)

(* _mouseStop *)
mouseStop(s) == change([s EXCEPT !.mouse = None], IF s.two THEN s.mouse ELSE 1)

ReleaseSlider == slider.mouse # None /\ slider' = mouseStop(slider)

(* keydown on the handle that has the focus.  A start that is refused      *)
(* leaves _keySliding set, and the same key goes on at its repetition.     *)
KeyDownOnHandle(key, refuse, allow) ==
  LET s == slider
      i == s.focus
      begun == [s EXCEPT !.key = TRUE, !.orderly = @ /\ s.mouse = None, !.byMouse = FALSE]
      value == valueOf(s, i)
      new == CASE key = "home" -> 0
               [] key = "end" -> alignedMax(s)
               [] key = "page up" -> trimAlign(s, numPages * value + alignedMax(s))
               [] key = "page down" -> trimAlign(s, numPages * value - alignedMax(s))
               [] key = "up" -> IF value = alignedMax(s) THEN value ELSE aligned(s, value + s.step)
               [] key = "down" -> IF value = 0 THEN value ELSE aligned(s, value - s.step)
  IN  /\ i \in There(s)
      /\ slider' = IF refuse /\ ~s.key THEN begun ELSE slide(begun, i, new, allow)

KeyUpOnHandle ==
  /\ slider.key /\ slider.focus \in There(slider)
  /\ slider' = change([slider EXCEPT !.key = FALSE], slider.focus)

FocusHandle(i) ==
  /\ i \in There(slider)
  /\ slider' = [slider EXCEPT !.focus = i, !.orderly = @ /\ ~slider.key]

(* The page sets the option values, in their order: the events come from   *)
(* the last handle on, "to prevent unreachable handles".                   *)
SetValues(first, second) ==
  LET s == [slider EXCEPT !.vals = [i \in Handles |-> IF i = 1 THEN first ELSE second],
                          !.orderly = Idle(slider), !.byMouse = Idle(slider)]
  IN  /\ slider.two /\ first <= second
      /\ slider' = change(change(s, 2), 1)

(* The method values(i, v), or value(v) for a single handle.               *)
SetValueOf(i, v) ==
  LET s == [slider EXCEPT !.vals[i] = aligned(slider, v), !.orderly = FALSE, !.byMouse = FALSE]
  IN  /\ i \in There(slider)
      /\ slider.two => valueOf(s, 1) <= valueOf(s, 2)
      /\ slider' = change(s, i)

SetLimits(step, max) ==
  /\ step <= max
  /\ slider' = [slider EXCEPT !.step = step, !.max = max, !.limited = TRUE,
                            !.orderly = FALSE, !.byMouse = FALSE]

(* The option range, from TRUE to "min" and back: one handle, or two at    *)
(* the minimum.                                                            *)
SetSliderRange ==
  LET s == [slider EXCEPT !.two = ~@, !.range = ~@, !.orderly = FALSE, !.byMouse = FALSE]
  IN  /\ slider.two = slider.range
      /\ slider' = IF slider.two THEN [s EXCEPT !.vals[1] = valueOf(slider, 1), !.vals[2] = 0]
                   ELSE [s EXCEPT !.vals = [i \in Handles |-> 0]]

KeysOfSlider == {"home", "end", "page up", "page down", "up", "down"}

SliderNext ==
  \/ \E v \in 0..Limit, b, allow \in BOOLEAN : PressSlider(v, b, allow)
  \/ \E v \in 0..Limit, allow \in BOOLEAN : DragSlider(v, allow)
  \/ \E key \in KeysOfSlider, refuse, allow \in BOOLEAN : KeyDownOnHandle(key, refuse, allow)
  \/ \E i \in Handles : FocusHandle(i)
  \/ ReleaseSlider \/ KeyUpOnHandle \/ SetSliderRange
  \/ \E first, second \in 0..Limit : SetValues(first, second)
  \/ \E i \in Handles, v \in 0..Limit : SetValueOf(i, v)
  \/ \E step \in Steps, max \in 1..Limit : SetLimits(step, max)

-------------------------------------------------------------------------------

(* A value shown is a multiple of the step, and no more than the option    *)
(* max, whatever was set before the limits were.                           *)
SliderTypeOK ==
  /\ {slider.last, slider.mouse} \subseteq Handles \cup {None}
  /\ \A i \in Handles : valueOf(slider, i) \in 0..slider.max /\ valueOf(slider, i) % slider.step = 0

(* The handles of a range are in order, whichever of them slides, by mouse *)
(* and key at once too, as long as the limits stay.  (After a change of    *)
(* the step one handle is bounded by the other's rounded value, and the    *)
(* next change of the step shows them out of order.)                       *)
HandlesInOrder == slider.range /\ ~slider.limited => valueOf(slider, 1) <= valueOf(slider, 2)

(* Once a slide is over the page has been told the value of each handle by *)
(* change, if slides by mouse and key did not overlap and the page itself  *)
(* did not change values or limits.                                        *)
ChangeIsTold ==
  Idle(slider) /\ slider.orderly =>
    \A i \in There(slider) : slider.told[i] = valueOf(slider, i)

(* "Prevent unreachable handles": where the handles of a range meet, the   *)
(* one that a press takes is one that can leave, if they came there by     *)
(* mouse or by the option values.  (A key on the second handle at the end  *)
(* of the range does not move it but makes it the one changed last.)       *)
HandlesPart ==
  /\ slider.range /\ Idle(slider) /\ slider.byMouse
  /\ valueOf(slider, 1) = valueOf(slider, 2)
  => \A v \in 0..Limit :
       IF closest(slider, v) = 1 THEN valueOf(slider, 1) > 0
       ELSE valueOf(slider, 2) < alignedMax(slider)
=============================================================================
