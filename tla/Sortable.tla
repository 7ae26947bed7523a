-------------------------------- MODULE Sortable --------------------------------
(***************************************************************************)
(* Connected lists of jQuery UI ("ui.sortable" with connectWith), each of  *)
(* them a container of the others.  The item that is dragged is its own    *)
(* helper and stays at its place in the document until it is dropped; the  *)
(* placeholder shows where it would go.  A list with the option revert     *)
(* lets the helper glide to its place first and drops it at the end of     *)
(* that animation.  Positions are left to the mouse: it may be over any    *)
(* list and any item.  Nothing is disabled.                                *)
(***************************************************************************)
EXTENDS Integers, Sequences, FiniteSets, SequencesExt

CONSTANTS ListCount,        \* the lists, and their placeholders, are numbered from 1 on
          Home,             \* Home[l] is the sequence of items list l begins with
          Reverts,          \* the lists with the option revert
          MaxGlides         \* bound on the animations of one list that have not ended

Lists == 1..ListCount
SortItems == UNION {ToSet(Home[l]) : l \in Lists}

ASSUME SortableAssumption ==
  /\ ListCount \in Nat \ {0} /\ Reverts \subseteq Lists /\ MaxGlides \in Nat
  /\ Home \in [Lists -> Seq(SortItems)] /\ \A l \in Lists : IsInjective(Home[l])
  /\ \A l, k \in Lists : l # k => ToSet(Home[l]) \cap ToSet(Home[k]) = {}
  /\ SortItems \cap 0..ListCount = {}

VARIABLE sort

NoNode == 0

SortableInit ==
  sort = [lists |-> Home,                            \* items and placeholders, in order
          of    |-> [l \in Lists |->                 \* the widget of every list
                       [item |-> NoNode, prev |-> NoNode, home |-> l,
                        container |-> l, helper |-> FALSE,
                        dragging |-> FALSE, reverting |-> FALSE,
                        started |-> FALSE,           \* _mouseStarted
                        glides |-> 0]],              \* animations yet to end
          over  |-> {},                              \* containers told of "over", not of "out"
          told  |-> [l \in Lists |-> ToSet(Home[l])] \* what the page knows to be in a list
         ]

-------------------------------------------------------------------------------
(* The document. *)

At(seq, node) == CHOOSE j \in DOMAIN seq : seq[j] = node

Without(seq, node) == IF node \in ToSet(seq) THEN RemoveAt(seq, At(seq, node)) ELSE seq

Taken(lists, node) == [l \in Lists |-> Without(lists[l], node)]

Place(lists, node) == CHOOSE l \in Lists : node \in ToSet(lists[l])
IsPlaced(lists, node) == \E l \in Lists : node \in ToSet(lists[l])

Before(seq, node) ==        \* the node before it
  IF At(seq, node) = 1 THEN NoNode ELSE seq[At(seq, node) - 1]

(* node.before, node.after; prepend and append when there is no node. *)
PutBefore(lists, l, node, at) ==
  [Taken(lists, node) EXCEPT
     ![l] = InsertAt(@, IF at = NoNode THEN Len(@) + 1 ELSE At(@, at), node)]

PutAfter(lists, l, node, at) ==
  [Taken(lists, node) EXCEPT
     ![l] = InsertAt(@, IF at = NoNode THEN 1 ELSE At(@, at) + 1, node)]

Rearranged(s, w, l, near, after) ==
  [s EXCEPT !.lists = IF after THEN PutAfter(@, l, w, near) ELSE PutBefore(@, l, w, near)]

-------------------------------------------------------------------------------
(* What a page knows that has been told that an item is in list c.         *)
Now(told, item, c) ==
  [l \in Lists |-> IF l = c THEN told[l] \cup {item} ELSE told[l] \ {item}]

(* _clear: drop the item where the placeholder is, tell the lists.  It     *)
(* fails at once when there is no helper any more.                         *)
clearSort(s, w) ==
  LET m == s.of[w]
      dropped == Taken(PutBefore(s.lists, Place(s.lists, w), m.item, w), w)
  IN  IF ~m.helper THEN [s EXCEPT !.of[w].reverting = FALSE]
      ELSE [s EXCEPT
              !.lists = dropped,
              !.of[w] = [m EXCEPT !.helper = FALSE, !.dragging = FALSE, !.reverting = FALSE],
              !.over = {},
              !.told = IF m.container = w THEN s.told ELSE Now(s.told, m.item, m.container)]

(* The animation that revert asks for; without a helper there is nothing   *)
(* to animate, and no end of it to come.                                   *)
Gliding(m) ==
  [m EXCEPT !.started = FALSE, !.reverting = TRUE,
            !.glides = m.glides + (IF m.helper THEN 1 ELSE 0)]

(* _mouseUp and _mouseStop *)
stopSort(s, w) ==
  IF w \in Reverts THEN [s EXCEPT !.of[w] = Gliding(s.of[w])]
  ELSE clearSort([s EXCEPT !.of[w].started = FALSE], w)

(* Mutant: an item that was the first of its list is left where it is. *)
putBackBehind(s, w) ==
  LET m == s.of[w]
  IN  IF m.prev = NoNode \/ ~IsPlaced(s.lists, m.prev) THEN s
      ELSE [s EXCEPT !.lists = PutAfter(@, Place(@, m.prev), m.item, m.prev)]

(* The item goes behind the node that was before it; nowhere, if that node *)
(* is not in the document any more.                                        *)
putBack(s, w) ==
  LET m == s.of[w]
  IN  IF m.prev = NoNode THEN [s EXCEPT !.lists = PutAfter(@, m.home, m.item, NoNode)]
      ELSE IF ~IsPlaced(s.lists, m.prev) THEN s
      ELSE [s EXCEPT !.lists = PutAfter(@, Place(@, m.prev), m.item, m.prev)]

(* cancel: the drag ends as if the item had been dropped, and the item is  *)
(* put back.  An animation goes on.  The page that cancels looks where the *)
(* item is.                                                                *)
cancelSort(s, w) ==
  LET stopped == IF s.of[w].dragging /\ s.of[w].started THEN stopSort(s, w) ELSE s
      outside == [stopped EXCEPT !.lists = Taken(@, w),
                                 !.over = IF s.of[w].dragging THEN {} ELSE @,
                                 !.of[w] = [@ EXCEPT !.helper = FALSE, !.dragging = FALSE,
                                                     !.reverting = FALSE]]
      back == putBack(outside, w)
      item == s.of[w].item
  IN  [back EXCEPT !.told = Now(back.told, item, Place(back.lists, item))]

-------------------------------------------------------------------------------

(* The items of list l the placeholder may go beside. *)
Neighbours(s, w, l) == (ToSet(s.lists[l]) \cap SortItems) \ {s.of[w].item}

(* _contactContainers: the mouse is over list c, or over none (0).  The    *)
(* placeholder goes into a list it was not in yet: beside its nearest      *)
(* item, or to the end of an empty one.                                    *)
contact(s, w, c, near, after) ==
  CASE c = NoNode -> [s EXCEPT !.over = {}]
    [] c = s.of[w].container -> [s EXCEPT !.over = {c}]
    [] OTHER -> [Rearranged(s, w, c, near, after) EXCEPT !.over = {c}, !.of[w].container = c]

(* One item of the present container makes room, at most. *)
Moved(s, w) ==
  {s} \cup {Rearranged(s, w, s.of[w].container, x, after) :
              x \in Neighbours(s, w, s.of[w].container), after \in BOOLEAN}

Entries(s, w, c) ==         \* of container c
  IF c = NoNode \/ Neighbours(s, w, c) = {} THEN {<<NoNode, FALSE>>}
  ELSE Neighbours(s, w, c) \X BOOLEAN

(* _mouseDrag: the items of the container first, then the containers.      *)
Dragged(s, w) ==
  UNION {{contact(m, w, c, x[1], x[2]) : x \in Entries(m, w, c)} :
           m \in Moved(s, w), c \in Lists \cup {NoNode}}

(* _mouseCapture and _mouseStart, up to the first _mouseDrag *)
begin(s, w, item) ==
  LET l == s.lists[w]
  IN  [s EXCEPT !.lists = PutAfter(@, w, w, item),
                !.of[w] = [@ EXCEPT !.item = item, !.prev = Before(l, item), !.home = w,
                                    !.container = w, !.helper = TRUE,
                                    !.dragging = TRUE, !.started = TRUE]]

-------------------------------------------------------------------------------

(* One mouse: no other list is being sorted by it.                         *)
StartSort(w, item) ==
  /\ \A l \in Lists : ~sort.of[l].started
  /\ ~sort.of[w].reverting
  /\ sort.of[w].glides < MaxGlides \/ w \notin Reverts
  /\ item \in ToSet(sort.lists[w])
  /\ sort' \in Dragged(begin(sort, w, item), w)

(* The handler fails when the helper has gone. *)
DragSort(w) ==
  /\ sort.of[w].started /\ sort.of[w].helper
  /\ sort' \in Dragged(sort, w)

(* A callback of the page may refuse what has happened, which cancels it.  *)
StopSort(w, refused) ==
  /\ sort.of[w].started
  /\ refused => w \notin Reverts /\ sort.of[w].helper
  /\ sort' = LET s == stopSort(sort, w) IN IF refused THEN cancelSort(s, w) ELSE s

(* The end of an animation: _clear, whatever has happened since it began.  *)
GlideEnds(w, refused) ==
  /\ sort.of[w].glides > 0
  /\ refused => sort.of[w].helper
  /\ sort' = LET s == clearSort([sort EXCEPT !.of[w].glides = @ - 1], w)
             IN  IF refused THEN cancelSort(s, w) ELSE s

(* The page cancels a drag, or, while nothing is dragged, an animation     *)
(* that never ended.                                                       *)
CancelSort(w) ==
  /\ \/ sort.of[w].dragging
     \/ sort.of[w].reverting /\ \A l \in Lists : ~sort.of[l].dragging
  /\ sort' = cancelSort(sort, w)

SortableNext ==
  \E w \in Lists :
    \/ \E item \in SortItems : StartSort(w, item)
    \/ DragSort(w) \/ CancelSort(w)
    \/ \E refused \in BOOLEAN : StopSort(w, refused) \/ GlideEnds(w, refused)

-------------------------------------------------------------------------------

(* Every item is in one place; a list that lets an item glide is not being *)
(* sorted with the mouse.                                                  *)
SortableTypeOK ==
  /\ \A l \in Lists : IsInjective(sort.lists[l])
  /\ \A item \in SortItems : \E l \in Lists :
       \A k \in Lists : item \in ToSet(sort.lists[k]) <=> k = l
  /\ sort.over \subseteq Lists
  /\ \A w \in Lists : sort.of[w].reverting => ~sort.of[w].started

(* The placeholder is in the document exactly as long as the drag lasts,   *)
(* and in the list that would receive the item.                            *)
PlaceholderWhileSorting ==
  \A w \in Lists :
    IF sort.of[w].dragging THEN w \in ToSet(sort.lists[sort.of[w].container])
    ELSE ~IsPlaced(sort.lists, w)

(* Who follows the events receive and remove, and looks when it cancels,   *)
(* knows the contents of every list.                                       *)
ToldIsHeld ==
  (\A w \in Lists : ~sort.of[w].dragging) =>
    \A l \in Lists : sort.told[l] = ToSet(sort.lists[l])

(* A cancel, even during the animation, leaves the item behind the item it *)
(* came from behind (unless that was the placeholder of another list): in  *)
(* the list it came from, as long as it is dragged or glides.  A list that *)
(* still waits for an animation that will not come finds that item where a *)
(* later drag has left it.                                                 *)
CancelPutsBack ==
  [][\A w \in Lists :
       CancelSort(w) /\ sort.of[w].prev \notin Lists =>
         LET l == Place(sort'.lists, sort.of[w].item)
         IN  /\ Before(sort'.lists[l], sort.of[w].item) = sort.of[w].prev
             /\ sort.of[w].dragging \/ sort.of[w].prev = NoNode => l = sort.of[w].home]_sort
=============================================================================
