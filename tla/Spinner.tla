-------------------------------- MODULE Spinner --------------------------------
(***************************************************************************)
(* The spinner of jQuery UI ("ui.spinner"): keys, buttons and the mouse    *)
(* wheel share one timer that repeats, one counter that makes a long spin  *)
(* faster, and the value the input had when it got the focus.              *)
(* The buttons do not get the class ui-state-active that mouseenter asks   *)
(* for, so entering one does nothing.  While a spinner is disabled, and    *)
(* once it is destroyed, it hears neither keys nor mouse nor focus, but    *)
(* its timers go on.                                                       *)
(***************************************************************************)
EXTENDS Integers

CONSTANTS Top,      \* option max; min is 0, and page is Top
          Fast      \* the count from which a step is a double one

ASSUME SpinnerAssumption == Top \in Nat \ {0} /\ Fast \in Nat \ {0, 1}

NoNumber == -1                  \* a text that cannot be parsed, and the empty one
Inputs == NoNumber..Top + 1     \* the user may also type what is out of bounds
Turns == {1, -1, Top, -Top}     \* what a key repeats

VARIABLE spinner    \* the input, the timers and the user's hands, see SpinnerInit

SpinnerInit ==
  \E text \in Inputs :
    spinner = [state    |-> "enabled",  \* or "disabled", or "destroyed"
               text     |-> text,
               previous |-> text,
               focused  |-> FALSE,
               spinning |-> FALSE,
               counter  |-> 0,
               timer    |-> 0,          \* what _repeat repeats, 0 for no timer
               wheel    |-> FALSE,      \* mousewheelTimer
               cancel   |-> FALSE,      \* cancelBlur
               check    |-> FALSE,      \* is the call that checks the focus to come?
               keep     |-> text,       \* the value this call would restore
               key      |-> FALSE,      \* is a key held down in the input?
               button   |-> FALSE,      \* a mouse button on one of the spinner's?
               unheard  |-> FALSE,      \* is it turning since it could not hear that it is let go?
               told     |-> text,       \* at the last event change
               meddled  |-> FALSE,      \* did the page change it while the user was in it?
               slow     |-> TRUE]       \* did the spin begin with single steps?

-------------------------------------------------------------------------------

(* _adjustValue, with the step 1.                                          *)
adjust(v) == IF v > Top THEN Top ELSE IF v < 0 THEN 0 ELSE v

(* _increment, of which it matters that the steps grow with the counter.   *)
increment(i) == IF i >= Fast THEN 2 ELSE 1

(* _start, which the page may refuse for a spin that is not under way.     *)
started(s) == [s EXCEPT !.counter = IF @ = 0 THEN 1 ELSE @, !.spinning = TRUE,
                        !.slow = IF s.spinning THEN @ ELSE s.counter <= 1]

(* _spin; the page may refuse the value, and the counter then stays.       *)
spin(s, turn, allow) ==
  LET from == IF s.text = NoNumber THEN 0 ELSE s.text
      i == IF s.counter = 0 THEN 1 ELSE s.counter
  IN  IF ~allow THEN [s EXCEPT !.counter = i]
      ELSE [s EXCEPT !.text = adjust(from + turn * increment(i)), !.counter = IF i < Fast THEN i + 1 ELSE i]

repeat(s, turn, allow) == spin([s EXCEPT !.timer = turn], turn, allow)

(* A key or a button that is held down begins to repeat.                   *)
turned(s, turn, allow) == repeat([started(s) EXCEPT !.unheard = FALSE], turn, allow)

(* _stop *)
stopSpin(s) ==
  IF ~s.spinning THEN s
  ELSE [s EXCEPT !.timer = 0, !.wheel = FALSE, !.counter = 0, !.spinning = FALSE, !.unheard = FALSE]

(* spinnerModifier: the event change where the text is another one.        *)
modified(s, t) ==
  IF t.text # s.text THEN [t EXCEPT !.told = t.text, !.meddled = @ \/ s.focused \/ s.check] ELSE t

(* The focus comes to the input.                                           *)
focused(s) == [s EXCEPT !.focused = TRUE, !.previous = s.text]

(* Mutant: the focus that is put back counts as a new one. *)
checkFocusAnew(s, previous) == IF s.focused THEN s ELSE focused(s)

(* checkFocus; an input that is disabled cannot take the focus.            *)
checkFocus(s, previous) ==
  IF s.focused THEN s
  ELSE [s EXCEPT !.focused = s.state # "disabled", !.previous = previous]

-------------------------------------------------------------------------------

(* The widget's handlers are bound, and not suppressed.                    *)
Hears == spinner.state = "enabled"

(* The user comes to the input, though not between a press of a button and *)
(* the call that it has delayed.                                           *)
FocusSpinner ==
  Hears /\ ~spinner.focused /\ ~spinner.check /\ spinner' = focused(spinner)

(* The focus leaves the input, of itself in some browsers when a button of *)
(* the spinner is pressed: that is not taken for leaving it.               *)
BlurSpinner ==
  LET left == [stopSpin(spinner) EXCEPT !.focused = FALSE, !.key = FALSE]
  IN  /\ Hears /\ spinner.focused
      /\ spinner' = IF spinner.cancel THEN [spinner EXCEPT !.cancel = FALSE, !.focused = FALSE]
                    ELSE IF left.text # left.previous THEN [left EXCEPT !.told = left.text]
                    ELSE left

(* keydown; every key starts a spin, but only some turn it.                *)
SpinKey(turn, allow) ==
  /\ Hears /\ spinner.focused
  /\ LET s == [spinner EXCEPT !.key = TRUE]
     IN  spinner' = IF turn = 0 THEN started(s) ELSE turned(s, turn, allow)

(* keydown on a spinner whose page refuses to start. *)
SpinKeyRefused ==
  Hears /\ spinner.focused /\ ~spinner.spinning /\ spinner' = [spinner EXCEPT !.key = TRUE]

SpinKeyUp ==
  /\ Hears /\ spinner.focused /\ spinner.key
  /\ spinner' = [stopSpin(spinner) EXCEPT !.key = FALSE]

TypeInSpinner(text) ==
  Hears /\ spinner.focused /\ spinner' = [spinner EXCEPT !.text = text]

(* mousedown on a button.  The delayed call of one press is run before     *)
(* there is another.                                                       *)
PressButton(turn, refuse, allow) ==
  LET s == spinner
      previous == IF s.focused THEN s.previous ELSE s.text
      here == [checkFocus(s, previous) EXCEPT !.cancel = TRUE, !.check = TRUE, !.keep = previous,
                                            !.button = TRUE]
  IN  /\ Hears /\ ~s.button /\ ~s.check
      /\ refuse => ~s.spinning
      /\ spinner' = IF refuse THEN here ELSE turned(here, turn, allow)

(* The call that mousedown has delayed.                                    *)
FocusChecked ==
  /\ spinner.check
  /\ spinner' = [checkFocus(spinner, spinner.keep) EXCEPT !.cancel = FALSE, !.check = FALSE]

(* mouseup on a button, or mouseleave of one that need not be pressed.     *)
LeaveButton == Hears /\ spinner' = [stopSpin(spinner) EXCEPT !.button = FALSE]

(* The timer of _repeat.                                                   *)
Again(allow) == spinner.timer # 0 /\ spinner' = repeat(spinner, spinner.timer, allow)

Wheel(turn, allow) ==
  /\ Hears /\ spinner.focused
  /\ spinner' = [spin(started(spinner), turn, allow) EXCEPT !.wheel = TRUE]

WheelRests == spinner.wheel /\ spinner' = [stopSpin(spinner) EXCEPT !.wheel = FALSE]

(* The methods stepUp, pageUp and so on, which end a spin under way, also  *)
(* that of a spinner that is disabled.                                     *)
Step(turn, allow) ==
  /\ spinner.state # "destroyed"
  /\ spinner' = modified(spinner, stopSpin(spin(started(spinner), turn, allow)))

(* The method value(v) *)
SetSpinner(v) ==
  /\ spinner.state # "destroyed"
  /\ spinner' = modified(spinner, [spinner EXCEPT !.text = IF v = NoNumber THEN v ELSE adjust(v)])

(* The methods disable and destroy stop no timer.                          *)
Deafen(state) ==
  spinner' = [spinner EXCEPT !.state = state, !.unheard = @ \/ spinner.timer # 0,
                             !.meddled = @ \/ spinner.focused \/ spinner.check]

DisableSpinner == spinner.state # "destroyed" /\ Deafen("disabled")
DestroySpinner == spinner.state # "destroyed" /\ Deafen("destroyed")
EnableSpinner ==
  spinner.state # "destroyed" /\ spinner' = [spinner EXCEPT !.state = "enabled"]

(* What the user does and the spinner does not hear: a key or a button is  *)
(* let go, also the key when the focus is elsewhere, and the focus leaves. *)
LetGo(focus, key, button) ==
  /\ Hears => ~spinner.focused /\ button = spinner.button
  /\ focus => spinner.focused
  /\ key => spinner.key
  /\ button => spinner.button
  /\ spinner' = [spinner EXCEPT !.focused = focus, !.key = key, !.button = button,
                                !.unheard = @ \/ (Hears /\ spinner.check /\ spinner.timer # 0)]

SpinnerNext ==
  \/ FocusSpinner \/ BlurSpinner \/ SpinKeyUp \/ SpinKeyRefused
  \/ FocusChecked \/ LeaveButton \/ WheelRests
  \/ \E turn \in Turns \cup {0}, allow \in BOOLEAN : SpinKey(turn, allow)
  \/ \E turn \in {1, -1}, refuse, allow \in BOOLEAN : PressButton(turn, refuse, allow)
  \/ \E turn \in {1, -1}, allow \in BOOLEAN : Wheel(turn, allow)
  \/ \E turn \in Turns, allow \in BOOLEAN : Step(turn, allow)
  \/ \E allow \in BOOLEAN : Again(allow)
  \/ \E text \in Inputs : TypeInSpinner(text) \/ SetSpinner(text)
  \/ DisableSpinner \/ EnableSpinner \/ DestroySpinner
  \/ \E focus, key, button \in BOOLEAN : LetGo(focus, key, button)

-------------------------------------------------------------------------------

(* Timers run for a spin that is under way, and no other.                  *)
SpinnerTypeOK ==
  /\ {spinner.text, spinner.previous, spinner.keep, spinner.told} \subseteq Inputs
  /\ spinner.counter \in 0..Fast /\ spinner.timer \in Turns \cup {0}
  /\ spinner.state \in {"enabled", "disabled", "destroyed"}
  /\ spinner.timer # 0 \/ spinner.wheel => spinner.spinning

(* A spinner that repeats has a key or a button held down: no order of     *)
(* keys, buttons, wheel, focus and method calls leaves it turning, but     *)
(* that it was disabled or destroyed while it turned, or that the key was  *)
(* let go in the moment in which a press on a button takes the focus away. *)
(* It then turns until something stops it or a key or a button takes over. *)
TurnsWhileHeld == spinner.timer # 0 => spinner.key \/ spinner.button \/ spinner.unheard

(* When the focus has left the input the page has been told the text in    *)
(* it, whether it was typed, turned or set, and although a blur may have   *)
(* been undone in between.  (A method called while the user is in the      *)
(* input tells its own change only: the user may take it back untold.  One *)
(* that was disabled or destroyed while the user was in it, or is turning  *)
(* since, tells nothing of what the user and the timer did.)               *)
LeftIsTold ==
  ~spinner.focused /\ ~spinner.check /\ ~spinner.meddled =>
    spinner.told = spinner.text

(* Every spin begins slowly, with the first count.                         *)
BeginsSlowly == spinner.slow /\ (~spinner.spinning => spinner.counter = 0)
=============================================================================
