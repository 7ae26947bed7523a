------------------------------- MODULE Accordion -------------------------------
(***************************************************************************)
(* The accordion of jQuery UI ("ui.accordion").  Unlike the tabs it lets   *)
(* the user go on during an animation: the next activation first brings    *)
(* the two panels of the last one (prevShow, prevHide) to their end.       *)
(* A panel goes by the number of its header.                               *)
(***************************************************************************)
EXTENDS Integers, Sequences, FiniteSets, SequencesExt

CONSTANT HeaderCount    \* the headers are numbered; those that are there keep that order

ASSUME AccordionAssumption == HeaderCount \in Nat \ {0}

AllHeaders == 1..HeaderCount
NoHeader == 0           \* also the index of no header: indexes are counted from 1

VARIABLE accordion      \* the widget and its elements, see AccordionInit

InOrder(there) ==
  [i \in 1..Cardinality(there) |-> CHOOSE e \in there : Cardinality({d \in there : d < e}) = i - 1]

AccordionInit ==
  \E collapsible, animate \in BOOLEAN :
    accordion = [there       |-> AllHeaders,
                 headers     |-> InOrder(AllHeaders),
                 active      |-> 1,
                 index       |-> 1,               \* options.active
                 prevShow    |-> NoHeader,
                 prevHide    |-> NoHeader,
                 running     |-> FALSE,           \* are these two being animated?
                 oldPanel    |-> NoHeader,        \* that of the activation
                 shown       |-> {1},
                 marked      |-> {1},             \* class ui-accordion-content-active
                 collapsible |-> collapsible,
                 animate     |-> animate,
                 refused     |-> FALSE,           \* was the last activation refused?
                 stuck       |-> FALSE]           \* did refresh not get away from a lost header?

IndexOf(s, h) ==
  IF h \in Range(s.headers) THEN CHOOSE i \in DOMAIN s.headers : s.headers[i] = h ELSE NoHeader
HeaderAt(s, i) == IF i \in DOMAIN s.headers THEN s.headers[i] ELSE NoHeader
OnPage(s, h) == {h} \cap s.there

-------------------------------------------------------------------------------

(* What is animated comes to its end, and _toggleComplete.                 *)
finish(s) ==
  IF s.running THEN [s EXCEPT !.running = FALSE, !.shown = @ \ {s.prevHide},
                              !.marked = @ \ {s.oldPanel}]
  ELSE s

(* Mutant: the animation that is under way is left to itself. *)
toggleOver(s, toShow, old) ==
  LET toHide == IF s.prevShow # NoHeader THEN s.prevShow ELSE old
      begun == [s EXCEPT !.prevShow = toShow, !.prevHide = toHide, !.oldPanel = old,
                         !.running = TRUE, !.shown = @ \cup OnPage(s, toShow)]
  IN  IF s.animate THEN begun ELSE finish(begun)

(* _toggle: what was shown last is hidden, or the panel of the header that *)
(* was active.                                                             *)
accordionToggle(s, toShow, old) ==
  LET toHide == IF s.prevShow # NoHeader THEN s.prevShow ELSE old
      begun == [finish(s) EXCEPT !.prevShow = toShow, !.prevHide = toHide, !.oldPanel = old,
                                 !.running = TRUE, !.shown = @ \cup OnPage(s, toShow)]
  IN  IF s.animate THEN begun ELSE finish(begun)

(* _eventHandler: a click on the active header collapses or does nothing,  *)
(* and beforeActivate may refuse.  The classes are switched after the      *)
(* panels.                                                                 *)
click(s, h, allow) ==
  LET collapsing == h = s.active
      set == [s EXCEPT !.index = IF collapsing THEN NoHeader ELSE IndexOf(s, h),
                       !.active = IF collapsing THEN NoHeader ELSE h, !.refused = FALSE]
      toggled == accordionToggle(set, IF collapsing THEN NoHeader ELSE h, s.active)
  IN  IF collapsing /\ ~s.collapsible THEN s
      ELSE IF ~allow THEN [s EXCEPT !.refused = TRUE]
      ELSE [toggled EXCEPT !.marked = IF collapsing THEN @ ELSE @ \cup OnPage(s, h)]

(* _activate: an index that names no header asks to collapse.              *)
activateHeader(s, index, allow) ==
  LET h == HeaderAt(s, index)
  IN  IF h = s.active THEN s ELSE click(s, IF h = NoHeader THEN s.active ELSE h, allow)

(* _processPanels: the headers anew; a panel without the class is hidden.  *)
processPanels(s) ==
  [s EXCEPT !.headers = InOrder(s.there), !.shown = @ \cap s.marked]

(* The active header in refresh.  The test whether all headers are         *)
(* disabled looks inside of them, where nothing is, and never holds.       *)
settle(s, allow) ==
  IF (s.index = NoHeader /\ s.collapsible) \/ s.headers = <<>>
    THEN [s EXCEPT !.index = NoHeader, !.active = NoHeader]
  ELSE IF s.index = NoHeader THEN activateHeader(s, 1, allow)
  ELSE IF s.active # NoHeader /\ s.active \notin s.there
    THEN activateHeader(s, IF s.index > 1 THEN s.index - 1 ELSE 1, allow)
  ELSE [s EXCEPT !.index = IndexOf(s, s.active)]

(* _refresh: the header at the index is active, and only its panel shown.  *)
redraw(s) ==
  LET h == HeaderAt(s, s.index)
  IN  [s EXCEPT !.active = h, !.marked = @ \cup OnPage(s, h), !.shown = OnPage(s, h)]

-------------------------------------------------------------------------------

HeaderClick(h, allow) ==
  /\ h \in Range(accordion.headers) \cap accordion.there
  /\ accordion' = click(accordion, h, allow)

(* option("active", index), and false for the index 0. *)
SetActive(index, allow) == accordion' = activateHeader(accordion, index, allow)

AnimationDone == accordion.running /\ accordion' = finish(accordion)

(* The option collapsible, set before the first panel is opened, which     *)
(* beforeActivate may refuse.                                              *)
SetAccordionCollapsible(collapsible, allow) ==
  LET set == [accordion EXCEPT !.collapsible = collapsible]
  IN  accordion' = IF ~collapsible /\ set.index = NoHeader THEN activateHeader(set, 1, allow) ELSE set

(* The page takes a header away with its panel, or puts a new one in, and  *)
(* calls refresh some time later.                                          *)
ChangeHeader(h) ==
  LET s == accordion
  IN  IF h \in s.there
        THEN accordion' = [s EXCEPT !.there = @ \ {h}, !.shown = @ \ {h}, !.marked = @ \ {h}]
        ELSE /\ h \notin Range(s.headers) \cup {s.active, s.prevShow, s.prevHide, s.oldPanel}
             /\ accordion' = [s EXCEPT !.there = @ \cup {h}, !.shown = @ \cup {h}]

(* refresh, which does not get away from an active header that is gone if  *)
(* beforeActivate refuses, or if so many headers are gone with it that the *)
(* index before it names none either.                                      *)
RefreshAccordion(allow) ==
  LET settled == settle(processPanels(accordion), allow)
  IN  accordion' = redraw([settled EXCEPT !.stuck = @ \/ settled.active \notin settled.there \cup {NoHeader}])

AccordionNext ==
  \/ \E h \in AllHeaders : ChangeHeader(h)
  \/ \E allow \in BOOLEAN :
       \/ RefreshAccordion(allow)
       \/ \E h \in AllHeaders : HeaderClick(h, allow)
       \/ \E index \in 0..HeaderCount : SetActive(index, allow)
       \/ \E collapsible \in BOOLEAN : SetAccordionCollapsible(collapsible, allow)
  \/ AnimationDone

-------------------------------------------------------------------------------

AccordionTypeOK ==
  /\ {accordion.active, accordion.prevShow, accordion.prevHide, accordion.oldPanel}
       \subseteq {NoHeader} \cup AllHeaders
  /\ accordion.index \in 0..HeaderCount
  /\ accordion.shown \cup accordion.marked \subseteq accordion.there

(* A header is active where the option has an index, and it is the one at  *)
(* that index; an accordion that may not collapse has one, unless the page *)
(* refused when it was last asked to open a header.                        *)
ActiveHasIndex ==
  ~accordion.stuck =>
    /\ accordion.index = IndexOf(accordion, accordion.active)
    /\ accordion.active = NoHeader =>
         accordion.collapsible \/ accordion.headers = <<>> \/ accordion.refused

(* When nothing is animated the panel to be seen is that of the active     *)
(* header alone, however activations and refreshes overlapped; headers put *)
(* in since the last refresh apart, and as long as refresh did not get     *)
(* stuck on a header that is gone, whose panel prevShow then stands for.   *)
OnlyActiveShown ==
  ~accordion.running /\ ~accordion.stuck =>
    accordion.shown \cap Range(accordion.headers) = OnPage(accordion, accordion.active)

(* The class that protects a panel from being hidden by the next refresh   *)
(* is on the active one, and only on that of an animation beside it.       *)
MarkedIsActive ==
  ~accordion.stuck =>
    /\ OnPage(accordion, accordion.active) \subseteq accordion.marked
    /\ ~accordion.running => accordion.marked = OnPage(accordion, accordion.active)
=============================================================================
