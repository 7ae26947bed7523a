----------------------------- MODULE Autocomplete -----------------------------
(***************************************************************************)
(* The autocompletion of jQuery UI ("ui.autocomplete"): typing starts a    *)
(* search after a pause, a source answers at once or some time later, in   *)
(* any order, and what it answers is shown unless it was overtaken or the  *)
(* field was left or cleared meanwhile.                                    *)
(***************************************************************************)
EXTENDS Integers, Sequences, FiniteSets, SequencesExt

CONSTANTS
  Texts,          \* what may stand in the field
  Short,          \* the text shorter than minLength
  MaxPending      \* bound on the requests that are not answered

ASSUME AutocompleteAssumption ==
  Short \in Texts /\ IsFiniteSet(Texts) /\ MaxPending \in Nat \ {0}

(* The lists of items a source answers; an item goes by its value.         *)
Contents == {<<>>} \cup {<<t>> : t \in Texts \ {Short}} \cup {SetToSeq(Texts \ {Short})}

VARIABLE ac       \* the widget, see AutocompleteInit

AutocompleteInit ==
  \E source \in {"array", "url", "function"} :
    ac = [source       |-> source,
          value        |-> Short,
          term         |-> Short,
          searching    |-> FALSE,      \* is the timer of the pause set?
          requests     |-> <<>>,       \* not answered: the term, and whether index = requestIndex
          pending      |-> 0,
          loading      |-> FALSE,      \* class ui-autocomplete-loading
          cancelSearch |-> FALSE,
          open         |-> FALSE,
          items        |-> <<>>,
          active       |-> 0,          \* of the menu: the item with the focus, or 0
          focused      |-> FALSE,
          asked        |-> Short,      \* the term of the newest request
          shown        |-> Short]      \* the term the items are for

-------------------------------------------------------------------------------

(* close, and _close, which does not cancel the search under way.          *)
closeMenu(s) == [s EXCEPT !.open = FALSE, !.active = 0]
closeAll(s) == [closeMenu(s) EXCEPT !.cancelSearch = TRUE]

(* Mutant: an answer to any request is shown. *)
responseAny(s, request, content) ==
  LET shown == IF content # <<>> /\ ~s.cancelSearch
                 THEN [s EXCEPT !.open = TRUE, !.items = content, !.active = 0, !.shown = request.term]
                 ELSE closeMenu(s)
  IN  [shown EXCEPT !.pending = @ - 1, !.loading = s.pending # 1]

(* The function _response() returns, when the source calls it.             *)
response(s, request, content) ==
  LET shown == IF ~request.newest THEN s
               ELSE IF content # <<>> /\ ~s.cancelSearch
                 THEN [s EXCEPT !.open = TRUE, !.items = content, !.active = 0, !.shown = request.term]
                 ELSE closeMenu(s)
  IN  [shown EXCEPT !.pending = @ - 1, !.loading = s.pending # 1]

(* _search.  An array answers before it returns; a url gives up the last   *)
(* request, which answers nothing in its place; a function does as it may. *)
askSource(s, content) ==
  LET request == [term |-> s.value, newest |-> TRUE]
      overtaken == [i \in DOMAIN s.requests |-> [s.requests[i] EXCEPT !.newest = FALSE]]
      asking == [s EXCEPT !.pending = @ + 1, !.loading = TRUE, !.cancelSearch = FALSE,
                          !.asked = s.value, !.requests = overtaken]
  IN  CASE s.source = "array"    -> response(asking, request, content)
        [] s.source = "function" -> [asking EXCEPT !.requests = Append(@, request)]
        [] s.source = "url"      ->
             LET aborted == IF overtaken = <<>> THEN asking ELSE response(asking, Last(overtaken), <<>>)
             IN  [aborted EXCEPT !.requests = <<request>>]

(* search(null), unless the page forbids it. *)
search(s, forbids, content) ==
  LET begun == [s EXCEPT !.term = s.value]
  IN  IF s.value = Short THEN closeAll(begun)
      ELSE IF forbids THEN begun ELSE askSource(begun, content)

MaySearch == Len(ac.requests) < MaxPending

-------------------------------------------------------------------------------

Focus == ~ac.focused /\ ac' = [ac EXCEPT !.focused = TRUE]

(* blur; the mouse takes no focus away when it goes to the menu.           *)
Blur == ac.focused /\ ac' = [closeAll(ac) EXCEPT !.focused = FALSE, !.searching = FALSE]

Type(text) == ac.focused /\ ac' = [ac EXCEPT !.value = text, !.searching = TRUE]

(* The pause is over: a search, if the text is a new one, or the menu is   *)
(* not there.                                                              *)
Searching(modifier, forbids, content) ==
  /\ ac.searching /\ MaySearch
  /\ LET paused == [ac EXCEPT !.searching = FALSE]
     IN  ac' = IF ac.term # ac.value \/ (~ac.open /\ ~modifier) THEN search(paused, forbids, content)
               ELSE paused

Respond(i, content) ==
  /\ i \in DOMAIN ac.requests
  /\ ac' = response([ac EXCEPT !.requests = RemoveAt(@, i)], ac.requests[i], content)

(* Up and down keys: a search, the term again at either end, or an item,   *)
(* whose value the field takes.                                            *)
MoveKey(forward, forbids, content) ==
  /\ ac.focused
  /\ LET last == Len(ac.items)
         next == IF ac.active = 0 THEN IF forward THEN 1 ELSE last
                 ELSE IF forward THEN ac.active + 1 ELSE ac.active - 1
     IN  \/ ~ac.open /\ MaySearch /\ ac' = search(ac, forbids, content)
         \/ ac.open /\ next \in 1..last /\ ac' = [ac EXCEPT !.active = next, !.value = ac.items[next]]
         \/ ac.open /\ next \notin 1..last /\ ac' = [ac EXCEPT !.active = 0, !.value = ac.term]

(* The mouse on an item; a click on it, or ENTER or TAB: menuselect.       *)
MouseOnItem(i) == ac.open /\ i \in DOMAIN ac.items /\ ac' = [ac EXCEPT !.active = i]

SelectItem ==
  /\ ac.active # 0
  /\ ac' = LET item == ac.items[ac.active]
           IN  closeAll([ac EXCEPT !.value = item, !.term = item])

Escape == ac.focused /\ ac.open /\ ac' = closeAll([ac EXCEPT !.value = ac.term])

(* A mousedown somewhere else, which leaves the focus if it may.           *)
ClickOutside == ac.open /\ ac' = closeAll(ac)

AutocompleteNext ==
  \/ Focus \/ Blur \/ SelectItem \/ Escape \/ ClickOutside
  \/ \E text \in Texts : Type(text)
  \/ \E i \in 1..MaxPending, content \in Contents : Respond(i, content)
  \/ \E b, forbids \in BOOLEAN, content \in IF ac.source = "array" THEN Contents ELSE {<<>>} :
       Searching(b, forbids, content) \/ MoveKey(b, forbids, content)
  \/ \E i \in 1..2 : MouseOnItem(i)

-------------------------------------------------------------------------------

AutocompleteTypeOK ==
  /\ {ac.value, ac.term, ac.asked, ac.shown} \subseteq Texts
  /\ ac.items \in Contents /\ ac.active \in 0..Len(ac.items)
  /\ ac.searching \in BOOLEAN /\ ac.cancelSearch \in BOOLEAN

(* The field shows that it loads exactly while some request is not         *)
(* answered, those included whose answers nobody wants any more.           *)
LoadingWhilePending ==
  ac.pending = Len(ac.requests) /\ (ac.loading <=> ac.requests # <<>>)

(* What the menu shows answers the newest request, in whatever order the   *)
(* answers came, or that one is still under way.                           *)
NewestShown ==
  ac.open => ac.shown = ac.asked \/ \E i \in DOMAIN ac.requests : ac.requests[i].newest

(* No answer opens the menu of a field that was left meanwhile.            *)
OpenHasFocus == ac.open => ac.focused
=============================================================================
