--------------------------------- MODULE Menu ---------------------------------
(***************************************************************************)
(* The menu of jQuery UI ("ui.menu") with its submenus: mouse, keyboard    *)
(* and focus move the active item at once, but most of what they do to the *)
(* submenus waits for one timer, which all of them set and clear.          *)
(***************************************************************************)
EXTENDS Integers, FiniteSets

CONSTANT ParentOf     \* of every item: the item whose submenu it is in, or Root

Root == 0
NoItem == 0
Items == DOMAIN ParentOf

VARIABLE menu         \* the widget, see MenuInit

(* A submenu goes by the item it belongs to.                               *)
Under(m) == {i \in Items : ParentOf[i] = m}
Submenus == {i \in Items : Under(i) # {}}

(* The menus around an item or submenu: its own, and with a submenu the    *)
(* menu of its item.                                                       *)
Parents == [i \in Items |->
  {m \in {Root} \cup Items :
     \A A \in SUBSET ({Root} \cup Items) :
       ParentOf[i] \in A /\ (\A j \in A \cap Items : ParentOf[j] \in A) => m \in A}]
FoundIn(m) == {i \in Submenus : m \in Parents[i]}

ASSUME MenuAssumption ==
  /\ Root \notin Items
  /\ \A i \in Items : ParentOf[i] \in {Root} \cup Items /\ i \notin Parents[i]

NoTimer == [do |-> "nothing", menu |-> Root]

MenuInit ==
  menu = [active     |-> NoItem,
          activeMenu |-> Root,
          open       |-> {},
          timer      |-> NoTimer,      \* this.timer
          orphans    |-> {},           \* timers this.timer has forgotten
          expanding  |-> NoItem,       \* the item expand is going to focus
          typing     |-> FALSE,        \* previousFilter
          late       |-> FALSE]        \* has a timer come after what should have stopped it?

-------------------------------------------------------------------------------

(* Mutant: only the submenus just below are closed. *)
closeChildren(s, startMenu) == [s EXCEPT !.open = @ \ Under(startMenu)]

(* _close(startMenu); without an argument, the menu of the active item.    *)
close(s, startMenu) == [s EXCEPT !.open = @ \ FoundIn(startMenu)]
closeBelowActive(s) == close(s, IF s.active = NoItem THEN Root ELSE ParentOf[s.active])

openMenu(s, submenu) == [s EXCEPT !.timer = NoTimer, !.open = (@ \cap Parents[submenu]) \cup {submenu}]

(* this.timer = this._delay(...): what it held before goes on by itself.   *)
delay(s, do, m) ==
  [s EXCEPT !.timer = [do |-> do, menu |-> m],
            !.orphans = IF s.timer = NoTimer THEN @ ELSE @ \cup {s.timer}]

clearTimer(s) == [s EXCEPT !.timer = NoTimer]

(* blur, which keeps the timer when it comes from a focus event.           *)
blur(s, fromFocus) == [s EXCEPT !.active = NoItem, !.timer = IF fromFocus THEN @ ELSE NoTimer]

(* focus(event, item): a key closes the submenus at once, anything else    *)
(* lets the timer do it, and the mouse has it open the submenu as well.    *)
focusItem(s, item, type) ==
  LET active == [blur(s, type = "focus") EXCEPT !.active = item]
      closing == IF type = "keydown" THEN closeBelowActive(active) ELSE delay(active, "close", Root)
      opening == IF type = "mouse" /\ item \in Submenus
                   THEN IF item \in s.open THEN clearTimer(closing)
                        ELSE delay(clearTimer(closing), "open", item)
                   ELSE closing
  IN  [opening EXCEPT !.activeMenu = ParentOf[item]]

collapseAll(s, m) == delay(clearTimer(s), "collapse", m)

(* What a timer does.                                                      *)
fired(s, t) ==
  CASE t.do = "close"    -> closeBelowActive(s)
    [] t.do = "open"     -> openMenu(closeBelowActive(s), t.menu)
    [] t.do = "collapse" -> [blur(close(s, t.menu), FALSE) EXCEPT !.activeMenu = t.menu]

(* expand: the submenu at once, the focus of its first item by a timer.    *)
expand(s) ==
  IF s.active \in Submenus
    THEN [openMenu(s, s.active) EXCEPT !.expanding = CHOOSE i \in Under(s.active) : TRUE]
    ELSE s

(* select, for an item without a submenu: the whole menu closes.           *)
selectEntry(s) == IF s.active \in Submenus THEN s ELSE collapseAll(s, Root)

-------------------------------------------------------------------------------

Visible == {i \in Items : ParentOf[i] \in {Root} \cup menu.open}

(* mouseenter, mousemove and mousedown: _activateItem.                     *)
MouseOn(i) ==
  /\ i \in Visible
  /\ menu' = IF menu.typing THEN menu ELSE focusItem(menu, i, "mouse")

(* click, which selects the active item; only without one that clicked.    *)
ClickItem(i) ==
  /\ i \in Visible
  /\ LET selected == selectEntry(IF menu.active = NoItem THEN [menu EXCEPT !.active = i] ELSE menu)
     IN  menu' = IF i \in Submenus THEN expand(selected) ELSE selected

(* mouseleave, a click elsewhere, or the loss of the focus.                *)
Leave(m) ==
  /\ m \in {Root} \cup menu.open
  /\ menu' = collapseAll(menu, m)

(* The focus event of the menu: the active item, or the first.  Bound: one *)
(* forgotten timer at a time.                                              *)
FocusMenu ==
  /\ menu.orphans = {}
  /\ \E first \in Under(Root) :
       menu' = focusItem(menu, IF menu.active = NoItem THEN first ELSE menu.active, "focus")

(* Up, down, home, end, page keys, typing: an item beside the active one,  *)
(* or of the active menu.                                                  *)
Move(i, typed) ==
  /\ ParentOf[i] = IF menu.active = NoItem THEN menu.activeMenu ELSE ParentOf[menu.active]
  /\ menu' = [focusItem(menu, i, "keydown") EXCEPT !.typing = @ \/ typed]

TypingEnds == menu.typing /\ menu' = [menu EXCEPT !.typing = FALSE]

(* LEFT and ESCAPE: collapse. *)
Collapse ==
  /\ menu.active # NoItem /\ ParentOf[menu.active] # Root
  /\ menu' = focusItem(closeBelowActive(menu), ParentOf[menu.active], "keydown")

(* RIGHT, and ENTER or SPACE. *)
Right == menu.active # NoItem /\ menu' = expand(menu)
Enter == menu.active # NoItem /\ menu' = IF menu.active \in Submenus THEN expand(menu) ELSE selectEntry(menu)

Expanded(type) ==
  /\ menu.expanding # NoItem
  /\ menu' = focusItem([menu EXCEPT !.expanding = NoItem,
                                    !.late = @ \/ menu.expanding \notin Visible], menu.expanding, type)

TimerDue ==
  /\ menu.timer # NoTimer
  /\ menu' = fired(clearTimer(menu), menu.timer)

OrphanDue(t) ==
  /\ t \in menu.orphans
  /\ menu' = fired([menu EXCEPT !.orphans = @ \ {t}, !.late = TRUE], t)

MenuNext ==
  \/ \E i \in Items :
       \/ MouseOn(i) \/ ClickItem(i)
       \/ \E typed \in BOOLEAN : Move(i, typed)
  \/ \E m \in {Root} \cup Submenus : Leave(m)
  \/ FocusMenu \/ TypingEnds \/ Collapse \/ Right \/ Enter
  \/ \E type \in {"keydown", "mouse"} : Expanded(type)
  \/ TimerDue \/ \E t \in menu.orphans : OrphanDue(t)

-------------------------------------------------------------------------------

MenuTypeOK ==
  /\ menu.active \in {NoItem} \cup Items
  /\ menu.activeMenu \in {Root} \cup Submenus
  /\ menu.open \subseteq Submenus

(* Whatever the timers close and open, the open submenus lie on one path:  *)
(* no two of them beside each other...                                     *)
OnePath == \A m, n \in menu.open : m = n \/ m \in Parents[n] \/ n \in Parents[m]

(* ... and none inside a menu that is closed, unless a timer that nothing  *)
(* could stop any more came late: that of expand, whose focus a key may    *)
(* overtake, or one that a focus event has made this.timer forget.         *)
OpenFromRoot == ~menu.late => \A m \in menu.open : ParentOf[m] \in {Root} \cup menu.open

(* The active item, which ENTER selects, is one the user can see, and so   *)
(* are those the keys lead to.                                             *)
ActiveVisible ==
  ~menu.late =>
    IF menu.active = NoItem THEN menu.activeMenu \in {Root} \cup menu.open
    ELSE menu.active \in Visible
=============================================================================
