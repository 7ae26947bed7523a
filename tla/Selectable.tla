------------------------------- MODULE Selectable -------------------------------
(***************************************************************************)
(* The lasso of jQuery UI ("ui.selectable") over items in a row.  An item  *)
(* has its classes, which the page sees, and the widget's data on it,      *)
(* which decide what the next move does to the classes.  The pointer is at *)
(* the number of the item it is over, or before or behind all of them.     *)
(***************************************************************************)
EXTENDS Integers

CONSTANT ItemCount
ASSUME SelectableAssumption == ItemCount \in Nat \ {0}

Selectees == 1..ItemCount
Points == 0..ItemCount + 1

VARIABLE lasso      \* the items, the widget and the press, see SelectableInit

SelectableInit ==
  \E auto \in BOOLEAN, tolerance \in {"touch", "fit"}, marked \in SUBSET Selectees :
    lasso = [auto        |-> auto,          \* options.autoRefresh
             tolerance   |-> tolerance,
             disabled    |-> FALSE,
             selected    |-> marked,        \* the classes ui-selected,
             selecting   |-> {},            \* ui-selecting
             unselecting |-> {},            \* and ui-unselecting
             data        |-> [selected |-> marked, selecting |-> {}, unselecting |-> {},
                              startselected |-> {}],
             from        |-> 0,             \* opos
             at          |-> 0,             \* the pointer; the press is there first
             started     |-> FALSE,         \* _mouseStarted
             before      |-> {},            \* what was selected when the press began
             ctrl        |-> FALSE,         \* the key, at the press
             moved       |-> FALSE,
             begun       |-> FALSE,         \* was it enabled at the press?
             steady      |-> TRUE,          \* neither the key nor the option changed since
             stale       |-> FALSE,         \* have classes changed that refresh has not read?
             told        |-> marked,        \* by the events selected and unselected
             expects     |-> marked]        \* by selecting and unselecting

Hit(s, i) ==
  LET x1 == IF s.from < s.at THEN s.from ELSE s.at
      x2 == IF s.from < s.at THEN s.at ELSE s.from
  IN  IF s.tolerance = "touch" THEN x1 <= i /\ i <= x2 ELSE x1 < i /\ i < x2

-------------------------------------------------------------------------------

(* refresh; the page looks as well. *)
readClasses(s) ==
  [s EXCEPT !.data = [selected |-> s.selected, selecting |-> s.selecting,
                      unselecting |-> s.unselecting, startselected |-> {}],
            !.stale = FALSE, !.told = s.selected, !.expects = s.selected]

(* The items that are selected at the press: without the key they are to   *)
(* be unselected.                                                          *)
startAll(s, ctrl) ==
  LET noted == [s EXCEPT !.data.startselected = @ \cup s.selected]
  IN  IF ctrl THEN noted
      ELSE [noted EXCEPT !.selected = {}, !.unselecting = @ \cup s.selected,
                         !.data.selected = @ \ s.selected,
                         !.data.unselecting = @ \cup s.selected,
                         !.expects = @ \ s.selected]

(* The item under the press: it changes with the key, it is selected       *)
(* without.                                                                *)
startTarget(s, i, ctrl) ==
  IF ctrl /\ i \in s.selected
    THEN [s EXCEPT !.selected = @ \ {i}, !.unselecting = @ \cup {i},
                   !.data.unselecting = @ \cup {i}, !.data.selecting = @ \ {i},
                   !.data.selected = @ \ {i}, !.expects = @ \ {i}]
    ELSE [s EXCEPT !.unselecting = @ \ {i}, !.selecting = @ \cup {i},
                   !.data.unselecting = @ \ {i}, !.data.selecting = @ \cup {i},
                   !.data.selected = @ \cup {i}, !.expects = @ \cup {i}]

(* _mouseDrag for the items touched by the lasso, of which each is looked  *)
(* at alone ...                                                            *)
touched(s, items) ==
  [s EXCEPT !.selected = @ \ (items \cap s.data.selected),
            !.unselecting = @ \ (items \cap s.data.unselecting),
            !.selecting = @ \cup (items \ s.data.selecting),
            !.data.selected = @ \ items, !.data.unselecting = @ \ items,
            !.data.selecting = @ \cup items,
            !.expects = @ \cup (items \ s.data.selecting)]

(* ... and for the others: with the key an item that was selected before   *)
(* is so again; without, one that has come to be selected is not.          *)
left(s, items, ctrl) ==
  LET were == items \cap s.data.selecting
      kept == IF ctrl THEN were \cap s.data.startselected ELSE {}
      undone == (were \ kept) \cap s.data.startselected
      dropped == IF ctrl THEN {} ELSE (items \cap s.data.selected) \ s.data.startselected
  IN  [s EXCEPT !.selected = (@ \cup kept) \ dropped,
                !.unselecting = @ \cup undone \cup dropped,
                !.selecting = @ \ were,
                !.data.selected = (@ \cup kept) \ dropped,
                !.data.unselecting = @ \cup undone \cup dropped,
                !.data.selecting = @ \ were,
                !.expects = @ \ ((were \ kept) \cup dropped)]

(* _mouseDrag *)
dragLasso(s, ctrl) ==
  LET hit == {i \in Selectees : Hit(s, i)}
  IN  left(touched(s, hit), Selectees \ hit, ctrl)

(* _mouseStop: what was to be becomes so, by the classes; unselected first.*)
stopLasso(s) ==
  [s EXCEPT !.unselecting = {}, !.selecting = {},
            !.selected = @ \cup s.selecting,
            !.data.unselecting = @ \ s.unselecting,
            !.data.startselected = (@ \ s.unselecting) \cup s.selecting,
            !.data.selecting = @ \ s.selecting,
            !.data.selected = @ \cup s.selecting,
            !.told = (@ \ s.unselecting) \cup s.selecting]

-------------------------------------------------------------------------------

(* _mouseStart, with the press.  A widget that is disabled only notes      *)
(* where it was.                                                           *)
StartLasso(p, ctrl) ==
  LET s == [lasso EXCEPT !.from = p, !.at = p, !.started = TRUE, !.before = lasso.selected,
                         !.ctrl = ctrl, !.begun = ~lasso.disabled, !.steady = ~lasso.disabled]
      all == startAll(IF s.auto THEN readClasses(s) ELSE s, ctrl)
  IN  /\ ~lasso.started
      /\ lasso' = IF s.disabled THEN s
                  ELSE IF p \in Selectees THEN startTarget(all, p, ctrl) ELSE all

(* Once it is enabled during a press the items move without having been    *)
(* read, and one that was selected before may cease to be so untold.       *)
MoveLasso(p, ctrl) ==
  LET s == [lasso EXCEPT !.at = p, !.moved = TRUE, !.steady = @ /\ ctrl = lasso.ctrl,
                         !.stale = @ \/ ~(lasso.begun \/ lasso.disabled)]
  IN  /\ lasso.started
      /\ lasso' = IF s.disabled THEN s ELSE dragLasso(s, ctrl)

StopLasso ==
  /\ lasso.started
  /\ lasso' = [stopLasso(lasso) EXCEPT !.started = FALSE, !.from = 0, !.at = 0, !.before = {},
                                       !.ctrl = FALSE, !.moved = FALSE, !.begun = FALSE, !.steady = TRUE]

DisableLasso(disabled) ==
  lasso' = [lasso EXCEPT !.disabled = disabled, !.steady = @ /\ ~lasso.started]

(* The page, between two drags: it selects or unselects an item itself,    *)
(* and calls refresh some time later.  Bound: one item before refresh.     *)
MarkItem(i) ==
  /\ ~lasso.started /\ ~lasso.stale
  /\ LET other(set) == IF i \in set THEN set \ {i} ELSE set \cup {i}
     IN  lasso' = [lasso EXCEPT !.selected = other(@), !.stale = TRUE,
                                !.told = other(@), !.expects = other(@)]

RefreshLasso == ~lasso.started /\ lasso' = readClasses(lasso)

SelectableNext ==
  \/ \E p \in Points, ctrl \in BOOLEAN : StartLasso(p, ctrl) \/ MoveLasso(p, ctrl)
  \/ StopLasso \/ RefreshLasso
  \/ \E disabled \in BOOLEAN : DisableLasso(disabled)
  \/ \E i \in Selectees : MarkItem(i)

-------------------------------------------------------------------------------

(* An item has one of the three classes at most, and none that is on its   *)
(* way to another when nothing is dragged.                                 *)
SelectableTypeOK ==
  /\ {lasso.from, lasso.at} \subseteq Points
  /\ lasso.selected \cup lasso.selecting \cup lasso.unselecting \subseteq Selectees
  /\ ~lasso.stale => lasso.selected \cap (lasso.selecting \cup lasso.unselecting) = {}
  /\ lasso.selecting \cap lasso.unselecting = {}
  /\ ~lasso.started => lasso.selecting \cup lasso.unselecting = {}

(* The page that follows the events selected and unselected knows what is  *)
(* selected when nothing is dragged; the one that follows selecting and    *)
(* unselecting knows at any time what would be.                            *)
EventsTellSelection ==
  ~lasso.stale =>
    /\ ~lasso.started => lasso.told = lasso.selected
    /\ lasso.expects = lasso.selected \cup lasso.selecting

(* How the lasso got to where it is does not matter: with the key down all *)
(* the time, what it touches is added to what was selected, but for the    *)
(* item of the press; without, it is all that is selected.                 *)
LassoDecides ==
  lasso.started /\ lasso.moved /\ lasso.steady /\ ~lasso.stale =>
    lasso.selected \cup lasso.selecting =
      {i \in Selectees : Hit(lasso, i)} \cup IF lasso.ctrl THEN lasso.before \ {lasso.from} ELSE {}
=============================================================================
