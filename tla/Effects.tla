-------------------------------- MODULE Effects --------------------------------
(***************************************************************************)
(* The effects of jQuery UI (jquery-ui.js:17173-19062): .effect(), and     *)
(* show, hide and toggle with an effect, queue two functions per element,  *)
(* of which the second runs the effect; an effect is one animation beside  *)
(* the queue or several that are moved to the queue's front.  Style is     *)
(* what an inline style has been given by: the page ("own"), a placeholder *)
(* ("placed") and an animation ("changed").                                *)
(***************************************************************************)
EXTENDS Integers, SequencesExt

CONSTANTS
  Effected,       \* the elements
  Changing,       \* those whose class is animated and that are stopped
  Pages,          \* what pages do: the effects they use, the elements, in their
                  \* order, that a call is made for, and a bound on the calls under way
  Slots           \* the numbers of the calls under way

EffectKinds == {"blind", "bounce", "clip", "drop", "fade", "fold", "highlight", "pulsate", "shake",
          "size", "slide", "scale", "puff"}

ASSUME EffectsAssumption ==
  /\ Changing \subseteq Effected
  /\ Slots \subseteq Nat \ {0}
  /\ \A page \in Pages :
       /\ page.kinds \subseteq EffectKinds /\ page.calls \subseteq Slots
       /\ \A set \in page.sets : Range(set) \subseteq Effected

NoCall == [kind |-> "none", asked |-> "none", mode |-> "none", modes |-> <<>>]
Idle == [what |-> "nothing", call |-> 0]     \* no call has the number 0
Held == [what |-> "inprogress", call |-> 0]
Unsaved == {"unsaved"}

(* The last argument but one of $.effects.define.                          *)
DefaultMode(kind) ==
  CASE kind \in {"blind", "clip", "drop", "fold", "puff"} -> "hide"
    [] kind \in {"highlight", "pulsate", "slide"}         -> "show"
    [] kind = "fade"                                      -> "toggle"
    [] kind \in {"bounce", "shake", "size", "scale"}      -> "effect"

VARIABLES
  page,           \* of Pages
  effects,        \* the elements, jQuery's data on them and the calls
  asked,          \* is the element to be hidden once its queue is empty?
  cutShort,       \* elements an effect of which was stopped for good
  interrupted     \* elements that were stopped since their queue was empty

effectsVars == <<page, effects, asked, cutShort, interrupted>>

EffectsInit ==
  /\ page \in Pages
  /\ effects = [hidden   |-> [e \in Effected |-> FALSE],
                style    |-> [e \in Effected |-> {"own"}],
                saved    |-> [e \in Effected |-> Unsaved],  \* "ui-effects-style"
                place    |-> [e \in Effected |-> FALSE],    \* "ui-effects-placeholder"
                strays   |-> [e \in Effected |-> 0],        \* placeholders in the page
                class    |-> [e \in Effected |-> FALSE],    \* the class that is animated
                queue    |-> [e \in Effected |-> <<>>],
                running  |-> [e \in Effected |-> Idle],     \* the timer of the element
                calls    |-> [c \in Slots |-> NoCall],     \* options; kept while needed
                mixed    |-> {}]    \* elements whose mode their call forgot for another's
  /\ asked = [e \in Effected |-> [hidden |-> FALSE, class |-> FALSE]]
  /\ cutShort = {} /\ interrupted = {}

-------------------------------------------------------------------------------
(* The building blocks of the effects *)

saveStyle(s, e) == [s EXCEPT !.saved[e] = s.style[e]]

restoreStyle(s, e) ==
  [s EXCEPT !.style[e] = IF s.saved[e] = Unsaved THEN {} ELSE s.saved[e], !.saved[e] = Unsaved]

(* Only what is not positioned yet gets a placeholder.                     *)
createPlaceholder(s, e) ==
  IF "placed" \in s.style[e] THEN s
  ELSE [s EXCEPT !.style[e] = @ \cup {"placed"}, !.place[e] = TRUE, !.strays[e] = @ + 1]

removePlaceholder(s, e) ==
  [s EXCEPT !.place[e] = FALSE, !.strays[e] = IF s.place[e] THEN @ - 1 ELSE @]

cleanUp(s, e) == removePlaceholder(restoreStyle(s, e), e)

(* $.effects.mode                                                          *)
modeOf(hidden, mode) ==
  LET m == IF mode # "toggle" THEN mode ELSE IF hidden THEN "show" ELSE "hide"
  IN  IF m = IF hidden THEN "hide" ELSE "show" THEN "none" ELSE m

(* Mutant: the animations wait behind what was queued before. *)
unshiftNot(queue, queueLength) == queue

(* $.effects.unshift, on the queue: what was added goes behind the         *)
(* sentinel.                                                               *)
unshift(queue, queueLength) ==
  IF queueLength > 1
    THEN <<Head(queue)>> \o SubSeq(queue, queueLength + 1, Len(queue))
           \o SubSeq(queue, 2, queueLength)
    ELSE queue

-------------------------------------------------------------------------------

(* Each of the functions below leaves the element with what it starts in   *)
(* running, or Idle with what is to be run next at the head of its queue.  *)

(* Animations of the queue, to be followed by done.                        *)
inQueue(s, e, c, animations) ==
  LET added == [i \in 1..animations + 1 |->
                  [what |-> IF i <= animations THEN "animation" ELSE "done", call |-> c]]
  IN  [s EXCEPT !.style[e] = @ \cup {"changed"}, !.queue[e] = unshift(@ \o added, Len(@))]

(* One animation with queue: false, at whose end is done.                  *)
beside(s, e, c) ==
  [s EXCEPT !.style[e] = @ \cup {"changed"}, !.running[e] = [what |-> "effect", call |-> c]]

modeIn(s, c) == s.calls[c].mode
Often(s, c, n) == n + IF modeIn(s, c) \in {"show", "hide"} THEN 1 ELSE 0

blind(s, e, c) == beside(createPlaceholder(s, e), e, c)
clip(s, e, c)  == beside(createPlaceholder(s, e), e, c)
drop(s, e, c)  == beside(createPlaceholder(s, e), e, c)
slide(s, e, c) == beside(createPlaceholder(s, e), e, c)
fade(s, e, c)  == beside(s, e, c)
size(s, e, c)  == beside(createPlaceholder(s, e), e, c)
scale(s, e, c) == size(s, e, c)
puff(s, e, c)  == scale(s, e, c)
highlight(s, e, c) == beside(saveStyle(s, e), e, c)

(* Bound: one time where the code has 5 and 3.                             *)
bounce(s, e, c)  == inQueue(createPlaceholder(s, e), e, c, Often(s, c, 2))
shake(s, e, c)   == inQueue(createPlaceholder(s, e), e, c, 3)
fold(s, e, c)    == inQueue(createPlaceholder(s, e), e, c, 2)
pulsate(s, e, c) == inQueue([s EXCEPT !.hidden[e] = FALSE], e, c, Often(s, c, 2))

effectMethod(s, e, c) ==
  CASE s.calls[c].kind = "blind"     -> blind(s, e, c)
    [] s.calls[c].kind = "bounce"    -> bounce(s, e, c)
    [] s.calls[c].kind = "clip"      -> clip(s, e, c)
    [] s.calls[c].kind = "drop"      -> drop(s, e, c)
    [] s.calls[c].kind = "fade"      -> fade(s, e, c)
    [] s.calls[c].kind = "fold"      -> fold(s, e, c)
    [] s.calls[c].kind = "highlight" -> highlight(s, e, c)
    [] s.calls[c].kind = "pulsate"   -> pulsate(s, e, c)
    [] s.calls[c].kind = "puff"      -> puff(s, e, c)
    [] s.calls[c].kind = "scale"     -> scale(s, e, c)
    [] s.calls[c].kind = "shake"     -> shake(s, e, c)
    [] s.calls[c].kind = "size"      -> size(s, e, c)
    [] s.calls[c].kind = "slide"     -> slide(s, e, c)

(* The first function: which way it goes is settled before anything is     *)
(* shown; what is to be seen during the effect is shown.                   *)
prefilter(s, e, c) ==
  LET call == s.calls[c]
      m == IF call.asked = "effect" THEN DefaultMode(call.kind) ELSE modeOf(s.hidden[e], call.asked)
      noted == [s EXCEPT !.calls[c].modes = Append(@, m),
                         !.hidden[e] = @ /\ m # "show" /\ ~(m = "hide" /\ DefaultMode(call.kind) = "hide")]
  IN  IF m = "none" THEN noted ELSE saveStyle(noted, e)

(* Is the effect of call c under way on e? *)
Under(s, e, c) ==
  \/ s.running[e].call = c
  \/ \E i \in DOMAIN s.queue[e] : s.queue[e][i] = [what |-> "done", call |-> c]

(* The second: it notes the mode in the options of the call, which are the *)
(* same for all its elements.                                              *)
runEffect(s, e, c) ==
  LET m == Head(s.calls[c].modes)
      t == [s EXCEPT !.calls[c].mode = m, !.calls[c].modes = Tail(@),
                     !.mixed = @ \cup {f \in Effected \ {e} : Under(s, f, c) /\ modeIn(s, c) # m}]
  IN  IF m # "none" THEN effectMethod(t, e, c)
      ELSE [t EXCEPT !.hidden[e] = t.calls[c].asked = "hide"]

(* cleanup, at the end of the effect; size and scale, if they neither show *)
(* nor hide, have saved the style they leave.                              *)
cleanup(s, e, c) ==
  LET kept == IF s.calls[c].kind \in {"size", "scale"} /\ modeIn(s, c) = "effect"
                THEN [s EXCEPT !.saved[e] = {"own"}] ELSE s
  IN  [cleanUp(kept, e) EXCEPT !.hidden[e] = @ \/ modeIn(s, c) = "hide"]

(* animateClass: nothing to animate if the class makes no difference.      *)
animateClass(s, e, on) ==
  IF s.class[e] = on THEN s
  ELSE [s EXCEPT !.style[e] = @ \cup {"changed"},
                 !.running[e] = [what |-> IF on THEN "addClass" ELSE "removeClass", call |-> 0]]

classAnimated(s, e) ==
  [s EXCEPT !.class[e] = s.running[e].what = "addClass", !.style[e] = @ \ {"changed"}]

(* jQuery.dequeue, for the functions above, up to what they start or the   *)
(* next dequeue.                                                           *)
runNextEffect(s, e) ==
  LET rest == IF s.queue[e] # <<>> /\ Head(s.queue[e]) = Held
                THEN Tail(s.queue[e]) ELSE s.queue[e]
      job == Head(rest)
      t == [s EXCEPT !.queue[e] = <<Held>> \o Tail(rest), !.running[e] = Idle]
  IN  IF rest = <<>> THEN [s EXCEPT !.queue[e] = <<>>, !.running[e] = Idle]
      ELSE CASE job.what = "prefilter"   -> prefilter(t, e, job.call)
             [] job.what = "run"         -> runEffect(t, e, job.call)
             [] job.what = "animation"   -> [t EXCEPT !.running[e] = job]
             [] job.what = "done"        -> cleanup(t, e, job.call)
             [] job.what = "addClass"    -> animateClass(t, e, TRUE)
             [] job.what = "removeClass" -> animateClass(t, e, FALSE)

(* And what it does in the end: functions run until one starts something,  *)
(* as the animations do that others put into the queue.                    *)
dequeueEffect(s, e) ==
  LET after[n \in 0..Len(s.queue[e]) + 1] ==
        IF n = 0 THEN runNextEffect(s, e)
        ELSE LET a == after[n - 1]
             IN  IF a.queue[e] = <<>> \/ a.running[e] # Idle THEN a ELSE runNextEffect(a, e)
  IN  after[Len(s.queue[e]) + 1]

queue(s, e, job) ==
  LET queued == [s EXCEPT !.queue[e] = Append(@, job)]
  IN  IF Head(queued.queue[e]) = Held THEN queued ELSE dequeueEffect(queued, e)

(* A call whose functions are all gone is forgotten.                       *)
Used(s, c) ==
  \E e \in Effected : s.running[e].call = c \/ \E i \in DOMAIN s.queue[e] : s.queue[e][i].call = c
Forgotten(s) == [s EXCEPT !.calls = [c \in Slots |-> IF Used(s, c) THEN @[c] ELSE NoCall]]

-------------------------------------------------------------------------------

(* What the page expects of the call.                                      *)
toBeHidden(hidden, kind, mode) ==
  LET m == IF mode = "effect" THEN DefaultMode(kind) ELSE mode
  IN  CASE m = "hide"              -> TRUE
        [] m = "show"              -> FALSE
        [] mode = "toggle"         -> ~hidden
        [] mode = "effect" /\ m \in {"effect", "toggle"} -> hidden

Classes == {"addClass", "removeClass"}
ClassWaits(e) == \E i \in DOMAIN effects.queue[e] : effects.queue[e][i].what \in Classes
Rests(e) == effects.queue[e] = <<>>
Expected(e) ==
  IF Rests(e) THEN [hidden |-> effects.hidden[e], class |-> effects.class[e]] ELSE asked[e]

(* Bound: a page that animates classes or stops effects has one call under *)
(* way, another one page.calls.                                            *)
Calm == \A c, d \in Slots : Used(effects, c) /\ Used(effects, d) => c = d
Room ==
  /\ \E c \in page.calls : ~Used(effects, c)
  /\ (\E c \in Slots : Used(effects, c)) =>
       interrupted \cup cutShort = {} /\ \A e \in Changing : ~ClassWaits(e)

(* .effect(kind), or mode(kind) with mode one of show, hide and toggle.    *)
Effect(set, kind, mode) ==
  LET c == Min({d \in page.calls : ~Used(effects, d)})
      called == [effects EXCEPT !.calls[c] = [kind |-> kind, asked |-> mode, mode |-> "none", modes |-> <<>>],
                                !.mixed = @ \ {e \in Range(set) : Rests(e)}]
      first == FoldLeft(LAMBDA s, e : queue(s, e, [what |-> "prefilter", call |-> c]), called, set)
      both == FoldLeft(LAMBDA s, e : queue(s, e, [what |-> "run", call |-> c]), first, set)
  IN  /\ Room
      /\ effects' = Forgotten(both)
      /\ asked' = [e \in Effected |->
           IF e \in Range(set)
             THEN [Expected(e) EXCEPT !.hidden = toBeHidden(Expected(e).hidden, kind, mode)]
             ELSE asked[e]]
      /\ interrupted' = interrupted \ {e \in Range(set) : Rests(e)}
      /\ UNCHANGED <<page, cutShort>>

(* addClass and removeClass with a speed.  Bound: one waiting.             *)
AnimateClass(e, on) ==
  /\ e \in Changing /\ Calm /\ ~ClassWaits(e)
  /\ effects' = Forgotten(queue(effects, e, [what |-> IF on THEN "addClass" ELSE "removeClass", call |-> 0]))
  /\ asked' = [asked EXCEPT ![e] = [Expected(e) EXCEPT !.class = on]]
  /\ interrupted' = IF Rests(e) THEN interrupted \ {e} ELSE interrupted
  /\ UNCHANGED <<page, cutShort>>

ended(s, e) ==
  CASE s.running[e].what = "effect"    -> dequeueEffect(cleanup(s, e, s.running[e].call), e)
    [] s.running[e].what = "animation" -> dequeueEffect(s, e)
    [] s.running[e].what \in Classes     -> dequeueEffect(classAnimated(s, e), e)

AnimationEnds(e) ==
  /\ effects.running[e] # Idle
  /\ effects' = Forgotten(ended(effects, e))
  /\ UNCHANGED <<page, asked, cutShort, interrupted>>

(* stop(clearQueue, gotoEnd) of jQuery: the end of what is stopped comes       *)
(* at once or never.  Bound: never only once.                              *)
StopEffect(e, clearQueue, gotoEnd) ==
  LET s == IF clearQueue THEN [effects EXCEPT !.queue[e] = <<>>] ELSE effects
      now == effects.running[e]
      never == ~gotoEnd \/ (clearQueue /\ now.what = "animation")
  IN  /\ e \in Changing /\ Calm /\ now # Idle /\ e \notin cutShort
      /\ effects' = Forgotten(IF gotoEnd THEN ended(s, e) ELSE dequeueEffect(s, e))
      /\ cutShort' = IF never THEN cutShort \cup {e} ELSE cutShort
      /\ interrupted' = IF never \/ clearQueue THEN interrupted \cup {e} ELSE interrupted
      /\ UNCHANGED <<page, asked>>

EffectsNext ==
  \/ \E set \in page.sets, kind \in page.kinds, mode \in {"effect", "show", "hide", "toggle"} :
       Effect(set, kind, mode)
  \/ \E e \in Effected :
       \/ \E on \in BOOLEAN : AnimateClass(e, on)
       \/ AnimationEnds(e)
       \/ \E clearQueue, gotoEnd \in BOOLEAN : StopEffect(e, clearQueue, gotoEnd)

-------------------------------------------------------------------------------

(* There is a timer exactly while the queue is held.                       *)
EffectsTypeOK ==
  /\ effects.hidden \in [Effected -> BOOLEAN] /\ effects.class \in [Effected -> BOOLEAN]
  /\ \A e \in Effected : effects.style[e] \subseteq {"own", "placed", "changed"}
  /\ \A e \in Effected : effects.running[e] = Idle <=> effects.queue[e] = <<>>

(* An element whose queue is empty has its own style again and no          *)
(* placeholder beside it, and the class it was last given.                 *)
RestsAsItWas ==
  \A e \in Effected : Rests(e) /\ e \notin cutShort =>
    /\ effects.style[e] = {"own"} /\ effects.saved[e] = Unsaved
    /\ effects.strays[e] = 0
    /\ e \notin interrupted => effects.class[e] = asked[e].class

(* The animations of an effect are not mixed with those of a later call.   *)
EffectsInTurn ==
  \A e \in Effected, c \in Slots :
    \A i \in DOMAIN effects.queue[e] :
      effects.queue[e][i] = [what |-> "done", call |-> c] =>
        effects.running[e].call = c /\ \A j \in 2..i : effects.queue[e][j].call = c

(* What is being shown or hidden can be seen meanwhile.                    *)
SeenMeanwhile ==
  \A e \in Effected, c \in Slots :
    Under(effects, e, c) /\ e \notin effects.mixed /\ modeIn(effects, c) \in {"show", "hide"} =>
      ~effects.hidden[e]

(* An element whose queue is empty is hidden or shown as the calls asked,  *)
(* one after the other, if each knew its own mode to the end.              *)
HiddenAsAsked ==
  \A e \in Effected : Rests(e) /\ e \notin interrupted \cup effects.mixed =>
    effects.hidden[e] = asked[e].hidden

(* The comment of jquery-ui.js:17910, "Override mode option on a per       *)
(* element basis, as toggle can be either show or hide depending on        *)
(* element state".                                                         *)
EachByItsMode ==
  \A e \in Effected : Rests(e) /\ e \notin interrupted => effects.hidden[e] = asked[e].hidden

(* Effects, class animations and stops leave an element with its style,    *)
(* its class and its place, in the order of the calls and hidden or shown  *)
(* by the last of them.                                                    *)
EffectsCorrect ==
  EffectsTypeOK /\ RestsAsItWas /\ EffectsInTurn /\ SeenMeanwhile /\ HiddenAsAsked
=============================================================================
