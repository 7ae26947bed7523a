-------------------------------- MODULE DragDrop --------------------------------
(***************************************************************************)
(* A draggable of jQuery UI, two droppables, one in the other, and the     *)
(* manager between them.  Where the helper is decides over which of them   *)
(* it is; a greedy child takes the drop from its parent.  The press that   *)
(* begins a drag is that of MouseWidgets.                                  *)
(***************************************************************************)
EXTENDS FiniteSets

CONSTANTS Outside, Inside       \* the two droppables

ASSUME DragDropAssumption == Outside # Inside

Droppables == {Outside, Inside}
Where == {"away", "outside", "inside"}

(* $.ui.intersect, for a child that lies within its parent.                *)
Hits(at) == CASE at = "away" -> {} [] at = "outside" -> {Outside} [] at = "inside" -> Droppables

VARIABLE drag       \* the draggable, the droppables and their options, see DragInit

DragInit ==
  \E accepts, disabled \in SUBSET Droppables, greedy, parentFirst \in BOOLEAN :
    drag = [helper      |-> "none",         \* "dragging", "reverting" and "kept", if stop returns false
            at          |-> "away",
            alive       |-> TRUE,
            doomed      |-> FALSE,          \* destroyOnClear
            accepts     |-> accepts,        \* the droppables that accept the draggable
            disabled    |-> disabled,
            greedy      |-> greedy,         \* is the child greedy?
            parentFirst |-> parentFirst,    \* the order of the manager's list
            visible     |-> {},
            isover      |-> {},
            hover       |-> {},             \* class ui-droppable-hover
            active      |-> {},             \* class ui-droppable-active
            greedyChild |-> FALSE,          \* of the parent
            dropped     |-> {}]             \* those that got the last drop

Live(d) == d.accepts \ d.disabled

-------------------------------------------------------------------------------

(* _over and _out *)
over(d, p) == [d EXCEPT !.isover = @ \cup {p}, !.hover = @ \cup ({p} \cap d.accepts)]
out(d, p) == [d EXCEPT !.isover = @ \ {p}, !.hover = @ \ ({p} \cap d.accepts)]

(* drag of the manager, for one droppable.  A greedy child that is entered *)
(* takes the helper from its parent, and gives it back when it is left.    *)
dragOver(d, p) ==
  LET hit == p \in Hits(d.at)
      nested == p = Inside /\ d.greedy
  IN  IF p \in d.disabled \/ p \notin d.visible \/ (p = Outside /\ d.greedyChild)
           \/ hit = (p \in d.isover) THEN d
      ELSE IF hit /\ nested THEN over(out([d EXCEPT !.greedyChild = TRUE], Outside), Inside)
      ELSE IF nested THEN over(out([d EXCEPT !.greedyChild = FALSE], Inside), Outside)
      ELSE IF hit THEN over(d, p)
      ELSE out(d, p)

(* drag: all droppables in the order of the list.                          *)
managerDrag(d) ==
  IF d.parentFirst THEN dragOver(dragOver(d, Outside), Inside)
  ELSE dragOver(dragOver(d, Inside), Outside)

(* prepareOffsets with the event of the press.                             *)
prepareOffsets(d) == [d EXCEPT !.visible = @ \cup Live(d), !.active = @ \cup Live(d)]

(* drop and _drop: those under the helper get it, the parent not if a      *)
(* greedy child does; all of them are deactivated.                         *)
managerDrop(d) ==
  LET taking == Live(d) \cap d.visible
      hit == taking \cap Hits(d.at)
      taken == IF d.greedy /\ Inside \in Live(d) \cap Hits(d.at) THEN hit \ {Outside} ELSE hit
  IN  [d EXCEPT !.dropped = taken, !.hover = @ \ taken, !.active = @ \ taking, !.isover = @ \ taking]

(* Mutant: what was put off till the end of the drag is forgotten. *)
clearOnly(d) == [d EXCEPT !.helper = "none"]

(* _clear *)
clear(d) == [d EXCEPT !.helper = "none", !.alive = @ /\ ~d.doomed]

(* What follows the event stop, which may be answered with false.          *)
stopped(d, keep) == IF keep THEN [d EXCEPT !.helper = "kept"] ELSE clear(d)

-------------------------------------------------------------------------------

(* _mouseCapture and _mouseStart; the page may refuse the start.           *)
StartDrag(at, refuse) ==
  LET begun == [drag EXCEPT !.helper = "dragging", !.at = at, !.dropped = {}]
  IN  /\ drag.alive /\ drag.helper = "none"
      /\ drag' = IF refuse THEN clear(begun) ELSE managerDrag(prepareOffsets(begun))

(* _mouseDrag *)
MoveHelper(at) ==
  drag.helper = "dragging" /\ drag' = managerDrag([drag EXCEPT !.at = at])

(* _mouseStop, by mouseup, by cancel() or because the page stops the drag. *)
(* revert, which may be a function, decides whether the helper goes back.  *)
StopDrag(revert, keep) ==
  /\ drag.helper = "dragging"
  /\ LET d == managerDrop(drag)
     IN  drag' = IF revert THEN [d EXCEPT !.helper = "reverting"] ELSE stopped(d, keep)

Reverted(keep) == drag.helper = "reverting" /\ drag' = stopped(drag, keep)

(* destroy: not before the drag is over.                                   *)
DestroyDraggable ==
  /\ drag.alive /\ ~drag.doomed
  /\ drag' = IF drag.helper = "none" THEN [drag EXCEPT !.alive = FALSE] ELSE [drag EXCEPT !.doomed = TRUE]

DragNext ==
  \/ \E at \in Where, refuse \in BOOLEAN : StartDrag(at, refuse)
  \/ \E at \in Where : MoveHelper(at)
  \/ \E revert, keep \in BOOLEAN : StopDrag(revert, keep)
  \/ \E keep \in BOOLEAN : Reverted(keep)
  \/ DestroyDraggable

-------------------------------------------------------------------------------

(* The page's view of a draggable that is to be destroyed: it is alive as  *)
(* long as its helper is there, and no longer.                             *)
DragTypeOK ==
  /\ drag.helper \in {"none", "dragging", "reverting", "kept"} /\ drag.at \in Where
  /\ drag.isover \cup drag.hover \cup drag.active \cup drag.dropped \subseteq Droppables
  /\ drag.helper # "none" => drag.alive
  /\ drag.doomed => drag.alive = (drag.helper # "none")

(* The drop goes where the page was told the helper is over: the position  *)
(* tested at the end agrees with the events over and out on the way there. *)
(* Not so for a parent that a drop on its greedy child, earlier on, has    *)
(* left to it (greedyChild is not reset), and one that a greedy child has  *)
(* given a helper back that jumped out of both (the next move corrects     *)
(* that).                                                                  *)
DropsWhereItIsOver ==
  [][drag.helper = "dragging" /\ drag'.helper # "dragging" =>
       \A p \in Live(drag) :
         \/ p \in drag'.dropped <=> p \in drag.isover
         \/ p = Outside /\ drag.greedyChild /\ Inside \notin drag.isover
         \/ p = Outside /\ drag.parentFirst /\ drag.at = "away"]_drag

(* When nothing is dragged no droppable is active, over or highlighted, a  *)
(* parent listed before its greedy child apart, whose highlight stays if   *)
(* the helper is let go right after it jumped out of both.                 *)
NothingLeftOver ==
  drag.helper # "dragging" =>
    /\ (drag.active \cup drag.isover) \cap Live(drag) = {}
    /\ drag.hover \cap Live(drag) \subseteq IF drag.greedy /\ drag.parentFirst THEN {Outside} ELSE {}

(* While dragging a greedy child and its parent are not both highlighted,  *)
(* and only what is active is.                                             *)
OneIsGreedy ==
  drag.helper = "dragging" =>
    /\ drag.greedy => ~(Droppables \subseteq drag.isover)
    /\ drag.isover \cap Live(drag) \subseteq drag.active
=============================================================================
