------------------------------- MODULE SelectMenu -------------------------------
(***************************************************************************)
(* The select menu of jQuery UI ("ui.selectmenu"): a button and a menu in  *)
(* front of a native select that the page may change at any time, and      *)
(* reset with its form.  The menu is rendered at the first focus.  An item *)
(* of the menu goes by its position, which is the native index of its      *)
(* option at the time of rendering (no option is hidden).                  *)
(***************************************************************************)
EXTENDS Integers, Sequences, FiniteSets, SequencesExt

CONSTANTS OptionCount,      \* the options are numbered; those that are there keep that order
          Dead              \* the disabled options

ASSUME SelectAssumption == OptionCount \in Nat \ {0} /\ Dead \subseteq 1..OptionCount

AllOptions == 1..OptionCount
NoOption == 0         \* no option, no position

VARIABLE select     \* the native select and the widget, see SelectInit

NativeList(there) ==
  [i \in 1..Cardinality(there) |-> CHOOSE e \in there : Cardinality({d \in there : d < e}) = i - 1]

SelectInit ==
  select = [there     |-> AllOptions,
            sel       |-> 1,                \* the native select's option
            items     |-> <<>>,             \* of the menu
            rendered  |-> FALSE,
            label     |-> 1,                \* the option on the button
            focusItem |-> NoOption,           \* focusIndex
            active    |-> NoOption,           \* the active item of the menu
            collapse  |-> FALSE,            \* is the menu about to blur its active item?
            isOpen    |-> FALSE,
            disabled  |-> FALSE,
            resets    |-> FALSE,            \* is a refresh to follow a reset of the form?
            untold    |-> FALSE]            \* has the page changed the select since refresh?

NativeAt(s, i) == IF i \in 1..Cardinality(s.there) THEN NativeList(s.there)[i] ELSE NoOption
NativeIndex(s) ==
  IF s.sel = NoOption THEN NoOption ELSE CHOOSE i \in 1..Cardinality(s.there) : NativeAt(s, i) = s.sel

(* menuItems.eq(selectedIndex): eq(-1) is the last one.                    *)
selectedItem(s) == IF s.sel = NoOption THEN Len(s.items) ELSE NativeIndex(s)

-------------------------------------------------------------------------------

(* _select and close *)
selectItem(s, item) ==
  [s EXCEPT !.sel = NativeAt(s, item), !.label = s.items[item], !.isOpen = FALSE]

(* focus of the menu with the widget's own callback: an item that is newly *)
(* focused while the menu is closed is selected.                           *)
menuFocus(s, item) ==
  LET chosen == IF s.focusItem # NoOption /\ item # s.focusItem /\ ~s.isOpen THEN selectItem(s, item) ELSE s
  IN  [chosen EXCEPT !.active = item, !.collapse = FALSE, !.focusItem = item]

(* _refreshMenu *)
refreshMenu(s) ==
  LET drawn == [s EXCEPT !.items = NativeList(s.there), !.rendered = TRUE, !.active = NoOption]
  IN  IF s.there = {} THEN drawn ELSE menuFocus(drawn, selectedItem(drawn))

(* refresh *)
refreshed(s) ==
  LET drawn == refreshMenu(s)
  IN  [drawn EXCEPT !.untold = FALSE,
                    !.label = IF drawn.there = {} THEN NoOption ELSE drawn.items[selectedItem(drawn)]]

(* open: the item that is selected is focused first.  An index that the    *)
(* menu does not have makes it fail.                                       *)
openSelect(s) ==
  LET ready == IF s.rendered THEN menuFocus(s, selectedItem(s)) ELSE refreshMenu(s)
  IN  IF s.disabled \/ (s.rendered /\ selectedItem(s) \notin DOMAIN s.items) THEN s
      ELSE [ready EXCEPT !.isOpen = ready.items # <<>>]

toggled(s) == IF s.isOpen THEN [s EXCEPT !.isOpen = FALSE] ELSE openSelect(s)

(* _move: the item to go to, if there is one before or after; an open menu *)
(* leads over disabled ones too.                                           *)
moveTo(s, to) ==
  LET from == IF s.isOpen THEN s.focusItem ELSE selectedItem(s)
      ok == {i \in DOMAIN s.items : s.isOpen \/ s.items[i] \notin Dead}
      before == {i \in ok : i < from}
      after == {i \in ok : i > from}
      least(set) == {i \in set : \A j \in set : i <= j}
      most(set) == {i \in set : \A j \in set : i >= j}
  IN  CASE to = "prev" -> most(before)
        [] to = "next" -> least(after)
        [] to = "first" -> least(before)
        [] to = "last" -> most(after)

-------------------------------------------------------------------------------

Enabled == ~select.disabled

(* The button gets the focus for the first time.                           *)
FocusSelect == Enabled /\ ~select.rendered /\ select' = refreshMenu(select)

(* A click on the button, alt and an arrow, or space on a closed menu.     *)
ToggleSelect == Enabled /\ select' = toggled(select)

(* Escape, tab, or a press elsewhere.                                      *)
CloseSelect == select.isOpen /\ select' = [select EXCEPT !.isOpen = FALSE]

(* An arrow, home or end on the button.                                    *)
MoveSelect(to) ==
  /\ Enabled /\ select.rendered
  /\ \E item \in moveTo(select, to) : select' = menuFocus(select, item)

(* A letter leads to any item, a disabled one too.                         *)
LetterSelect(item) ==
  Enabled /\ item \in DOMAIN select.items /\ select' = menuFocus(select, item)

(* Enter or space on an open menu.                                         *)
EnterSelect ==
  /\ select.isOpen /\ select.focusItem \in DOMAIN select.items
  /\ select.items[select.focusItem] \notin Dead
  /\ select' = selectItem(select, select.focusItem)

HoverItem(item) ==
  select.isOpen /\ item \in DOMAIN select.items /\ select' = menuFocus(select, item)

(* A click on an item, which the mouse has activated: the menu collapses,  *)
(* a moment later, and the item is selected.                               *)
ClickOption(item) ==
  /\ select.isOpen /\ item \in DOMAIN select.items
  /\ select.items[item] \notin Dead
  /\ select' = [selectItem(menuFocus(select, item), item) EXCEPT !.collapse = TRUE]

Collapsed == select.collapse /\ select' = [select EXCEPT !.collapse = FALSE, !.active = NoOption]

DisableSelect(disabled) ==
  select' = [select EXCEPT !.disabled = disabled, !.isOpen = @ /\ ~disabled]

-------------------------------------------------------------------------------
(* The page: it sets the native select, changes its options, resets the    *)
(* form, and calls refresh some time later.                                *)

SetNative(o) ==
  o \in select.there /\ select' = [select EXCEPT !.sel = o, !.untold = TRUE]

ChangeOption(o) ==
  LET there == IF o \in select.there THEN select.there \ {o} ELSE select.there \cup {o}
      alive == there \ Dead
  IN  select' = [select EXCEPT !.there = there, !.untold = TRUE,
                                !.sel = IF @ \in there THEN @
                                        ELSE IF alive # {} THEN CHOOSE p \in alive : \A q \in alive : p <= q
                                        ELSE NoOption]

(* The reset of the form; _formResetHandler refreshes after it.            *)
ResetForm ==
  1 \in select.there /\ select' = [select EXCEPT !.sel = 1, !.untold = TRUE, !.resets = TRUE]

RefreshAfterReset ==
  select.resets /\ select' = refreshed([select EXCEPT !.resets = FALSE])

RefreshSelect == select' = refreshed(select)

SelectNext ==
  \/ FocusSelect \/ ToggleSelect \/ CloseSelect \/ EnterSelect \/ Collapsed
  \/ \E to \in {"prev", "next", "first", "last"} : MoveSelect(to)
  \/ \E item \in AllOptions : LetterSelect(item) \/ HoverItem(item) \/ ClickOption(item)
  \/ \E b \in BOOLEAN : DisableSelect(b)
  \/ \E o \in AllOptions : SetNative(o) \/ ChangeOption(o)
  \/ ResetForm \/ RefreshAfterReset \/ RefreshSelect

-------------------------------------------------------------------------------

(* An open menu is rendered and not that of a disabled widget.             *)
SelectTypeOK ==
  /\ select.sel \in select.there \cup {NoOption}
  /\ select.label \in AllOptions \cup {NoOption}
  /\ {select.focusItem, select.active} \subseteq 0..OptionCount
  /\ select.isOpen => select.rendered /\ ~select.disabled

(* The button shows the option that the form would send, unless the page   *)
(* has changed the select and not said so yet.  (With no option selected   *)
(* it shows the last one.)                                                 *)
LabelIsSelection ==
  ~select.untold /\ select.sel # NoOption => select.label = select.sel

(* Enter takes the item that is highlighted: the widget's index and the    *)
(* active item of the menu go together as long as the menu is open.        *)
EnterTakesActive ==
  select.isOpen /\ select.items # <<>> =>
    select.focusItem = select.active /\ select.active \in DOMAIN select.items
=============================================================================
