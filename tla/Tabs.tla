--------------------------------- MODULE Tabs ---------------------------------
(***************************************************************************)
(* The tabs of jQuery UI ("ui.tabs"): the active tab and the index the     *)
(* option has of it, tabs that are added and removed and read anew only by *)
(* refresh, disabled tabs by index, the animation between two panels,      *)
(* panels that are loaded, and the activation that a key delays.           *)
(***************************************************************************)
EXTENDS Integers, Sequences, FiniteSets, SequencesExt

CONSTANTS
  TabCount,       \* the tabs are numbered; those that are there keep that order
  Remote          \* those whose panel is loaded

ASSUME TabsAssumption == TabCount \in Nat \ {0} /\ Remote \subseteq 1..TabCount

AllTabs == 1..TabCount
NoTab == 0        \* also the index of no tab: indexes are counted from 1
All == 0..TabCount    \* options.disabled = true, unlike any set of indexes

VARIABLE tabs     \* the widget and its elements, see TabsInit

Listed(there) ==
  [i \in 1..Cardinality(there) |-> CHOOSE e \in there : Cardinality({d \in there : d < e}) = i - 1]

TabsInit ==
  \E collapsible, animated \in BOOLEAN :
    tabs = [there       |-> AllTabs,              \* the elements on the page
            tabs        |-> Listed(AllTabs),      \* those of the last refresh
            active      |-> 1,
            index       |-> 1,                    \* options.active
            disabled    |-> {},                   \* options.disabled: {} is false
            off         |-> {},                   \* class ui-state-disabled
            running     |-> "no",
            old         |-> NoTab,                \* of the animation
            new         |-> NoTab,
            shown       |-> {1},                  \* the panels to be seen
            loading     |-> [t \in AllTabs |-> IF t = 1 /\ 1 \in Remote THEN "sent" ELSE "no"],
            xhr         |-> IF 1 \in Remote THEN 1 ELSE NoTab,
            activating  |-> NoTab,                \* the index the timer is set for
            collapsible |-> collapsible,
            animated    |-> animated,
            missed      |-> FALSE]                \* refresh could not leave a tab that is gone

Position(s, t) == IF t \in Range(s.tabs) THEN CHOOSE i \in DOMAIN s.tabs : s.tabs[i] = t ELSE NoTab
TabAt(s, i) == IF i \in DOMAIN s.tabs THEN s.tabs[i] ELSE NoTab

-------------------------------------------------------------------------------

(* _findNextTab: from an index on, around the list, the first that is not  *)
(* disabled.  With no other tab than disabled ones it does not end.        *)
findNextTab(s, index, goingForward) ==
  LET n == Len(s.tabs)
      start == IF index > n THEN 1 ELSE IF index < 1 THEN n ELSE index
      at(k) == 1 + ((IF goingForward THEN start - 1 + k ELSE start - 1 + n - k) % n)
      free == {k \in 0..n - 1 : s.disabled = All \/ at(k) \notin s.disabled}
  IN  at(CHOOSE k \in free : \A m \in free : k <= m)

(* load: the request that is under way is given up in the event handler.   *)
load(s, t) ==
  IF t \in Remote THEN [s EXCEPT !.xhr = t, !.loading[t] = "sent"] ELSE s

abort(s) ==
  IF s.xhr # NoTab /\ s.loading[s.xhr] = "sent" THEN [s EXCEPT !.loading[s.xhr] = "done"] ELSE s

(* show() of _toggle, which ends at once without an animation.             *)
beginShow(s) ==
  LET showing == [s EXCEPT !.shown = @ \cup ({s.new} \cap s.there)]
  IN  IF s.new # NoTab /\ s.animated THEN [showing EXCEPT !.running = "show"]
      ELSE [showing EXCEPT !.running = "no", !.old = NoTab, !.new = NoTab]

toggle(s, old, new) ==
  LET begun == [s EXCEPT !.old = old, !.new = new]
  IN  IF old \in s.there /\ s.animated THEN [begun EXCEPT !.running = "hide"]
      ELSE beginShow([begun EXCEPT !.shown = @ \ {old}])

refused(s, t) ==
  \/ t \in s.off
  \/ s.loading[t] # "no"
  \/ s.running # "no"
  \/ t = s.active /\ ~s.collapsible

(* _eventHandler for a click on tab t, unless it is refused, by            *)
(* beforeActivate too.                                                     *)
eventHandler(s, t, allow) ==
  LET collapsing == t = s.active
      left == abort([s EXCEPT !.index = IF collapsing THEN NoTab ELSE Position(s, t),
                              !.active = IF collapsing THEN NoTab ELSE t])
  IN  IF refused(s, t) \/ ~allow THEN s
      ELSE toggle(IF collapsing THEN left ELSE load(left, t), s.active, IF collapsing THEN NoTab ELSE t)

(* _activate: an index that names no tab asks to collapse.                 *)
activate(s, index, allow) ==
  LET t == TabAt(s, index)
  IN  IF t = s.active THEN s ELSE eventHandler(s, IF t = NoTab THEN s.active ELSE t, allow)

(* _setOptionDisabled: a list of all tabs becomes true.                    *)
setOptionDisabled(s, disabled) ==
  LET set == IF Cardinality(disabled) = Len(s.tabs) /\ disabled # {} THEN All ELSE disabled
  IN  [s EXCEPT !.disabled = set,
                !.off = (@ \ Range(s.tabs)) \cup {t \in Range(s.tabs) : Position(s, t) \in set}]

(* The active tab in refresh: none, the one before if it is gone, or the   *)
(* same at another place.                                                  *)
refreshActive(s, allow) ==
  IF s.index = NoTab \/ s.tabs = <<>> THEN [s EXCEPT !.index = NoTab, !.active = NoTab]
  ELSE IF s.active # NoTab /\ s.active \notin s.there
    THEN IF Cardinality(s.disabled) = Len(s.tabs) THEN [s EXCEPT !.index = NoTab, !.active = NoTab]
         ELSE activate(s, findNextTab(s, IF s.index > 1 THEN s.index - 1 ELSE 1, FALSE), allow)
    ELSE [s EXCEPT !.index = Position(s, s.active)]

(* refresh and _refresh, which hides the panels of all other tabs, also of *)
(* those put in.                                                           *)
refresh(s, allow) ==
  LET read == [s EXCEPT !.tabs = Listed(s.there),
                        !.disabled = {i \in 1..Cardinality(s.there) : Listed(s.there)[i] \in s.off}]
      settled == refreshActive(read, allow)
      drawn == setOptionDisabled(settled, settled.disabled)
  IN  [drawn EXCEPT !.shown = {settled.active} \cap s.there,
                    !.missed = settled.active \notin s.there \cup {NoTab}]

-------------------------------------------------------------------------------

Present == Range(tabs.tabs) \cap tabs.there     \* those with handlers

(* A click, and option("active", ...).                                     *)
Click(t, allow) == t \in Present /\ tabs' = eventHandler(tabs, t, allow)

(* Arrows, HOME and END, with the focus on tab t: the tab they lead to is  *)
(* activated 300 ms later, by its index.                                   *)
Arrow(t, goingForward) ==
  /\ t \in Present
  /\ tabs' = [tabs EXCEPT !.activating =
       findNextTab(tabs, Position(tabs, t) + (IF goingForward THEN 1 ELSE -1), goingForward)]

(* SPACE and ENTER on tab t, with the timer cleared. *)
Press(t, enter, allow) ==
  /\ t \in Present
  /\ LET cleared == [tabs EXCEPT !.activating = NoTab]
         index == Position(tabs, t)
     IN  tabs' = activate(cleared, IF enter /\ index = tabs.index THEN NoTab ELSE index, allow)

(* Alt and page up or down; false + 1 is the second tab. *)
PageNav(goingForward, allow) ==
  /\ tabs.tabs # <<>>
  /\ LET from == IF ~goingForward THEN tabs.index - 1
                 ELSE IF tabs.index = NoTab THEN 2 ELSE tabs.index + 1
     IN  tabs' = activate(tabs, findNextTab(tabs, from, goingForward), allow)

Activating(allow) ==
  /\ tabs.activating # NoTab
  /\ tabs' = activate([tabs EXCEPT !.activating = NoTab], tabs.activating, allow)

AnimationEnds ==
  \/ /\ tabs.running = "hide"
     /\ tabs' = beginShow([tabs EXCEPT !.shown = @ \ {tabs.old}])
  \/ /\ tabs.running = "show"
     /\ tabs' = [tabs EXCEPT !.running = "no", !.old = NoTab, !.new = NoTab]

Answered(t) == tabs.loading[t] = "sent" /\ tabs' = [tabs EXCEPT !.loading[t] = "done"]

(* The timer of 1 ms after an answer, an error or an abort.                *)
Loaded(t) ==
  /\ tabs.loading[t] = "done"
  /\ tabs' = [tabs EXCEPT !.loading[t] = "no", !.xhr = IF @ = t THEN NoTab ELSE @]

(* disable and enable, of all tabs or of one. *)
Able(i, disable) ==
  /\ i \in DOMAIN tabs.tabs \cup {NoTab}
  /\ tabs.disabled # (IF disable THEN All ELSE {})
  /\ LET indexes == tabs.disabled \cap DOMAIN tabs.tabs
     IN  tabs' = IF i = NoTab THEN setOptionDisabled(tabs, IF disable THEN DOMAIN tabs.tabs ELSE {})
                 ELSE setOptionDisabled(tabs, IF disable THEN indexes \cup {i} ELSE indexes \ {i})

SetCollapsible(collapsible, allow) ==
  LET set == [tabs EXCEPT !.collapsible = collapsible]
  IN  tabs' = IF ~collapsible /\ tabs.index = NoTab /\ tabs.tabs # <<>> THEN activate(set, 1, allow)
              ELSE set

(* The page takes a tab away with its panel, or puts one in, and calls     *)
(* refresh some time later.  Until then a panel that came with its tab is  *)
(* to be seen; that of a remote tab is made by refresh.  Bounds: not while *)
(* its panel is being loaded, and a tab comes in under the number of one   *)
(* that is quite forgotten.                                                *)
Change(t) ==
  /\ tabs.loading[t] = "no"
  /\ t \notin tabs.there => t \notin Range(tabs.tabs) \cup {tabs.active, tabs.old, tabs.new}
  /\ tabs' = IF t \in tabs.there
               THEN [tabs EXCEPT !.there = @ \ {t}, !.shown = @ \ {t}, !.off = @ \ {t}]
               ELSE [tabs EXCEPT !.there = @ \cup {t}, !.shown = @ \cup ({t} \ Remote)]

Refresh(allow) == tabs' = refresh(tabs, allow)

TabsNext ==
  \/ \E t \in AllTabs :
       \/ Answered(t) \/ Loaded(t) \/ Change(t)
       \/ \E b \in BOOLEAN : Arrow(t, b)
       \/ \E allow \in BOOLEAN : Click(t, allow) \/ \E enter \in BOOLEAN : Press(t, enter, allow)
  \/ \E b, allow \in BOOLEAN : PageNav(b, allow) \/ SetCollapsible(b, allow)
  \/ \E allow \in BOOLEAN : Activating(allow) \/ Refresh(allow)
  \/ \E b \in BOOLEAN, i \in 0..TabCount : Able(i, b)
  \/ AnimationEnds

-------------------------------------------------------------------------------

TabsTypeOK ==
  /\ tabs.active \in {NoTab} \cup AllTabs /\ tabs.index \in 0..TabCount
  /\ tabs.off \subseteq AllTabs /\ tabs.disabled \subseteq 0..TabCount
  /\ tabs.running \in {"no", "hide", "show"}
  /\ tabs.shown \subseteq tabs.there
  /\ tabs.xhr \in {NoTab} \cup Remote

(* Whatever is added, removed, disabled or collapsed, the index the option *)
(* has is that of the active tab, unless refresh met an animation, or a    *)
(* page, that did not let it leave a tab that is gone.                     *)
IndexOfActive == tabs.missed \/ tabs.index = Position(tabs, tabs.active)

(* A list of disabled tabs always leaves one out: the search for the next  *)
(* tab (_findNextTab) comes to an end.                                     *)
SearchEnds == tabs.disabled # All => DOMAIN tabs.tabs = {} \/ DOMAIN tabs.tabs \ tabs.disabled # {}

(* Between animations just the panel of the active tab is to be seen of    *)
(* those the widget knows, also when refresh came in the middle of one;    *)
(* panels put in since the last refresh apart.                             *)
OnePanelShown ==
  tabs.running = "no" /\ ~tabs.missed =>
    tabs.shown \cap Range(tabs.tabs) = {tabs.active} \cap tabs.there
=============================================================================
