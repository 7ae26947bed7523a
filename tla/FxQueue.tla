------------------------------- MODULE FxQueue -------------------------------
(***************************************************************************)
(* The fades of the pages: jQuery's queue of animations per element, the   *)
(* show/hide pass of an animation with the values it keeps in fxshow, and  *)
(* the one interval that drives all animations (jquery-1.8.2.js:1847-1985  *)
(* and 8536-9190).  The property animated is the opacity, in quarters; an  *)
(* animation takes Frames ticks or, with a duration of 0, none.            *)
(***************************************************************************)
EXTENDS Integers, Sequences, FiniteSets, SequencesExt

CONSTANTS
  Elements,       \* the elements that are faded
  Stoppable,      \* those whose animations are stopped: the ones of widgets
  MaxWaiting      \* bound: an element has no more animations waiting

ASSUME FxAssumption == Stoppable \subseteq Elements /\ MaxWaiting \in Nat

Opaque == 4
Frames == 2
NoValue == -1
Sentinel == [kind |-> "inprogress", frames |-> 0]

Kinds == {"show", "hide", "toggle"}
(* fadeIn, fadeOut, toggle(200), and show(0), as dbDoc.html has it.        *)
Jobs == [kind : Kinds, frames : {Frames}] \cup {[kind |-> "show", frames |-> 0]}

VARIABLES
  fx,             \* the document and jQuery's data on it, see FxInit
  wanted,         \* is the element to be hidden once its queue is empty?
  disturbed,      \* elements whose animations did not run on their own
  cut             \* elements whose last animation was stopped before its end

fxVars == <<fx, wanted, disturbed, cut>>

FxInit ==
  /\ fx = [hidden  |-> [e \in Elements |-> FALSE],
           opacity |-> [e \in Elements |-> Opaque],
           fxshow  |-> [e \in Elements |-> NoValue],
           queue   |-> [e \in Elements |-> <<>>],
           timers  |-> <<>>,        \* jQuery.timers
           ticking |-> FALSE]       \* timerId
  /\ wanted = [e \in Elements |-> FALSE]
  /\ disturbed = {}
  /\ cut = {}

InProgress(s, e) == s.queue[e] # <<>> /\ Head(s.queue[e]) = Sentinel

-------------------------------------------------------------------------------

(* The callbacks for a hide or show that is done: hide the element, forget *)
(* what fxshow kept, put the opacity back.                                 *)
animated(s, t) ==
  [s EXCEPT !.hidden[t.elem] = @ \/ t.hides,
            !.fxshow[t.elem] = NoValue,
            !.opacity[t.elem] = t.orig]

(* Mutant: every animation takes the opacity it finds for the original. *)
tweenAfresh(s, e, job) ==
  LET hidden == s.hidden[e]
      now == s.opacity[e]
  IN  [elem |-> e, hides |-> ~hidden, left |-> job.frames, orig |-> now,
       from |-> IF hidden THEN 0 ELSE now, to |-> IF hidden THEN now ELSE 0]

(* The tween of defaultPrefilter, between nothing and the opacity that the *)
(* element has or had before an animation that was stopped.                *)
tween(s, e, job) ==
  LET hidden == s.hidden[e]
      now == s.opacity[e]
      kept == IF s.fxshow[e] = NoValue THEN now ELSE s.fxshow[e]
  IN  [elem |-> e, hides |-> ~hidden, left |-> job.frames, orig |-> kept,
       from |-> IF hidden /\ s.fxshow[e] = NoValue THEN 0 ELSE now,
       to |-> IF hidden THEN kept ELSE 0]

(* Animation: nothing to do for what is already so; otherwise shown at     *)
(* once if it is hidden, at the first value of its tween, and run by the   *)
(* interval, unless it takes no time.                                      *)
Animation(s, e, job) ==
  LET t == tween(s, e, job)
      begun == [s EXCEPT !.fxshow[e] = IF @ = NoValue THEN s.opacity[e] ELSE @,
                         !.hidden[e] = FALSE,
                         !.opacity[e] = t.from]
  IN  IF job.kind = (IF s.hidden[e] THEN "hide" ELSE "show") THEN s
      ELSE IF t.left = 0 THEN animated(begun, t)
      ELSE [begun EXCEPT !.timers = Append(@, t), !.ticking = TRUE]

(* jQuery.dequeue, up to the next one: an animation that is over at once   *)
(* dequeues again.                                                         *)
runNext(s, e) ==
  LET rest == IF InProgress(s, e) THEN Tail(s.queue[e]) ELSE s.queue[e]
  IN  IF rest = <<>> THEN [s EXCEPT !.queue[e] = <<>>]
      ELSE Animation([s EXCEPT !.queue[e] = <<Sentinel>> \o Tail(rest)], e, Head(rest))

(* The state after the queue went on until an animation takes its time.    *)
dequeue(s, e) ==
  LET after[n \in 0..Len(s.queue[e]) + 1] ==
        IF n = 0 THEN s
        ELSE LET a == after[n - 1] IN IF a.timers = s.timers THEN runNext(a, e) ELSE a
  IN  after[Len(s.queue[e]) + 1]

complete(s, t) == dequeue(animated(s, t), t.elem)

(* animate, as fadeIn, fadeOut and the others call it.                     *)
animate(s, e, job) ==
  LET queued == [s EXCEPT !.queue[e] = Append(@, job)]
  IN  IF InProgress(queued, e) THEN queued ELSE dequeue(queued, e)

(* stop(clearQueue, gotoEnd): what runs is brought to its end or left as   *)
(* it is, from the last timer to the first, and the queue goes on.         *)
stop(s, e, clearQueue, gotoEnd) ==
  LET cleared == IF clearQueue THEN [s EXCEPT !.queue[e] = <<>>] ELSE s
      n == Len(s.timers)
      without(u, i) == [u EXCEPT !.timers = RemoveAt(@, i)]
      visited[k \in 0..n] ==
        IF k = 0 THEN cleared
        ELSE LET i == n + 1 - k
             IN  IF s.timers[i].elem # e THEN visited[k - 1]
                 ELSE IF gotoEnd THEN complete(without(visited[k - 1], i), s.timers[i])
                 ELSE without(visited[k - 1], i)
      found == \E i \in 1..n : s.timers[i].elem = e
  IN  IF found /\ gotoEnd THEN visited[n] ELSE dequeue(visited[n], e)

(* One call of a timer: the next value, or the end.                        *)
step(s, t) ==
  LET u == [t EXCEPT !.left = @ - 1]
      index == CHOOSE i \in DOMAIN s.timers : s.timers[i] = t
  IN  IF u.left > 0
        THEN [s EXCEPT !.timers[index] = u,
                       !.opacity[t.elem] = t.to + ((t.from - t.to) * u.left) \div Frames]
        ELSE complete([s EXCEPT !.timers = RemoveAt(@, index)], t)

(* fx.tick: every timer in turn; those that the ended ones start are at    *)
(* their first value already.                                              *)
tick(s) ==
  LET ticked[k \in 0..Len(s.timers)] == IF k = 0 THEN s ELSE step(ticked[k - 1], s.timers[k])
      all == ticked[Len(s.timers)]
  IN  [all EXCEPT !.ticking = all.timers # <<>>]

-------------------------------------------------------------------------------

(* fadeIn, fadeOut, toggle(200), hide(200), show(0) ... of a page.         *)
Animate(e, job) ==
  /\ Len(fx.queue[e]) <= MaxWaiting
  /\ fx' = animate(fx, e, job)
  /\ wanted' = [wanted EXCEPT ![e] = CASE job.kind = "hide"   -> TRUE
                                       [] job.kind = "show"   -> FALSE
                                       [] job.kind = "toggle" -> ~@]
  /\ cut' = IF fx'.queue[e] = <<>> /\ fx'.fxshow[e] = NoValue THEN cut \ {e} ELSE cut
  /\ UNCHANGED disturbed

(* show() and hide() without a duration change the element at once,        *)
(* whatever is under way (showHide).                                       *)
ShowHide(e, hide) ==
  /\ fx' = [fx EXCEPT !.hidden[e] = hide]
  /\ wanted' = [wanted EXCEPT ![e] = hide]
  /\ disturbed' = IF fx.queue[e] = <<>> THEN disturbed \ {e} ELSE disturbed \cup {e}
  /\ UNCHANGED cut

Stop(e, clearQueue, gotoEnd) ==
  /\ e \in Stoppable
  /\ fx' = stop(fx, e, clearQueue, gotoEnd)
  /\ disturbed' = disturbed \cup {e}
  /\ cut' = IF InProgress(fx, e) /\ ~gotoEnd THEN cut \cup {e} ELSE cut
  /\ UNCHANGED wanted

Tick ==
  /\ fx.ticking
  /\ fx' = tick(fx)
  /\ cut' = {e \in cut : fx'.queue[e] # <<>> \/ fx'.fxshow[e] # NoValue}
  /\ UNCHANGED <<wanted, disturbed>>

FxNext ==
  \/ \E e \in Elements :
       \/ \E job \in Jobs : Animate(e, job)
       \/ \E hide \in BOOLEAN : ShowHide(e, hide)
       \/ \E clearQueue, gotoEnd \in BOOLEAN : Stop(e, clearQueue, gotoEnd)
  \/ Tick

-------------------------------------------------------------------------------

FxTypeOK ==
  /\ fx.hidden \in [Elements -> BOOLEAN] /\ fx.opacity \in [Elements -> 0..Opaque]
  /\ fx.fxshow \in [Elements -> {NoValue} \cup 0..Opaque]
  /\ \A e \in Elements : Range(fx.queue[e]) \subseteq Jobs \cup {Sentinel}
  /\ fx.ticking \in BOOLEAN

(* An element has at most one animation under way, and exactly while its   *)
(* queue is held by the sentinel: neither do two animations fight over an  *)
(* element, nor is a queue held for ever by one that has ended.            *)
SentinelHeld ==
  \A e \in Elements :
    Cardinality({i \in DOMAIN fx.timers : fx.timers[i].elem = e}) = IF InProgress(fx, e) THEN 1 ELSE 0

(* Animations under way are driven. *)
TimersTick == fx.timers # <<>> => fx.ticking

(* Once its animations are over an element is as opaque as it was, however *)
(* fades and stops overlapped, unless the last one was stopped on its way. *)
OpacityRestored ==
  \A e \in Elements : fx.queue[e] = <<>> /\ e \notin cut =>
                        fx.opacity[e] = Opaque /\ fx.fxshow[e] = NoValue

(* And it is hidden or shown as the calls asked, in their order.           *)
ShownAsAsked ==
  \A e \in Elements : fx.queue[e] = <<>> /\ e \notin disturbed => fx.hidden[e] = wanted[e]

(* However fades, shows, hides and stops overlap, the queue goes on, its   *)
(* timer runs, and an element ends as it was asked to, with its opacity.   *)
FadesCorrect ==
  FxTypeOK /\ SentinelHeld /\ TimersTick /\ OpacityRestored /\ ShownAsAsked
=============================================================================
