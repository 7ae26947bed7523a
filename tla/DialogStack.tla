----------------------------- MODULE DialogStack -----------------------------
(***************************************************************************)
(* The dialogs of a page (jquery-ui.js, "ui.dialog"): which are open, in   *)
(* which order they lie over each other, the overlays of the modal ones,   *)
(* and where the focus is.  All dialogs share two things on the document:  *)
(* the list of the open ones, the one that had the focus last in front,    *)
(* and the number of overlays, with one handler for focusin while there    *)
(* are any.                                                                *)
(***************************************************************************)
EXTENDS Integers, Sequences, SequencesExt, FiniteSetsExt

CONSTANTS
  Dialogs,        \* the dialogs of the page
  Page,           \* an input of the page, outside of all dialogs
  Nowhere,        \* no element has the focus
  MaxZ            \* bound: nothing is opened or moved above this z-index

ASSUME DialogAssumption ==
  /\ MaxZ \in Nat /\ IsFiniteSet(Dialogs)
  /\ Page \notin Dialogs /\ Nowhere \notin Dialogs \cup Nat /\ Page # Nowhere

BaseZ == 0        \* the z-index .ui-front has in the style sheet

VARIABLES
  dlg,            \* the dialogs and the document, see DialogInit
  top,            \* the dialog that was brought to the top last
  switched        \* those whose option modal was set while they were open

dialogVars == <<dlg, top, switched>>

DialogInit ==
  /\ dlg = [open      |-> {},
            modal     |-> {},                             \* options.modal
            z         |-> [d \in Dialogs |-> BaseZ],
            overlay   |-> [d \in Dialogs |-> Nowhere],    \* or its z-index
            overlays  |-> 0,                              \* ui-dialog-overlays
            handler   |-> FALSE,                          \* focusin.ui-dialog
            isOpening |-> FALSE,                          \* of that handler
            instances |-> <<>>,                           \* ui-dialog-instances
            opener    |-> [d \in Dialogs |-> Nowhere],
            focus     |-> Nowhere]
  /\ top = Nowhere
  /\ switched = {}

-------------------------------------------------------------------------------

untrack(s, d) == [s EXCEPT !.instances = RemoveFirst(@, d)]

makeFocusTarget(s, d) == [s EXCEPT !.instances = <<d>> \o RemoveFirst(@, d)]

(* focusin: a dialog that gets the focus is put in front; the handler of   *)
(* the document gives the focus back to the first dialog when it goes to   *)
(* the page, and throws if there is none.                                  *)
focusOn(s, target) ==
  IF target \in Dialogs THEN makeFocusTarget([s EXCEPT !.focus = target], target)
  ELSE IF s.handler /\ ~s.isOpening /\ s.instances # <<>>
    THEN makeFocusTarget([s EXCEPT !.focus = Head(s.instances)], Head(s.instances))
  ELSE [s EXCEPT !.focus = target]

(* The z-indexes of what is visible beside dialog d.                       *)
Beside(s, d) ==
  {s.z[e] : e \in s.open \ {d}} \cup {s.overlay[e] : e \in {e \in Dialogs : s.overlay[e] # Nowhere}}

(* Mutant: only the other dialogs are looked at. *)
moveToTopOfDialogs(s, d) ==
  LET others == {s.z[e] : e \in s.open \ {d}}
  IN  IF others # {} /\ Max(others) >= s.z[d] THEN [s EXCEPT !.z[d] = Max(others) + 1] ELSE s

moveToTop(s, d) ==
  IF Beside(s, d) # {} /\ Max(Beside(s, d)) >= s.z[d]
    THEN [s EXCEPT !.z[d] = Max(Beside(s, d)) + 1] ELSE s

(* Mutant: every modal dialog counts as the first. *)
createOverlayFirst(s, d) ==
  IF d \notin s.modal THEN s
  ELSE [s EXCEPT !.overlay[d] = BaseZ, !.overlays = 1, !.handler = TRUE,
                 !.isOpening = IF s.overlays = 0 THEN TRUE ELSE @]

(* createOverlay: the first one attaches the handler, which does nothing   *)
(* until a timer of 0 ms has fired.                                        *)
createOverlay(s, d) ==
  IF d \notin s.modal THEN s
  ELSE [s EXCEPT !.overlay[d] = BaseZ, !.overlays = @ + 1, !.handler = TRUE,
                 !.isOpening = IF s.overlays = 0 THEN TRUE ELSE @]

(* destroyOverlay, which looks at the option of the moment.                *)
destroyOverlay(s, d) ==
  IF d \notin s.modal \/ s.overlay[d] = Nowhere THEN s
  ELSE [s EXCEPT !.overlay[d] = Nowhere, !.overlays = @ - 1,
                 !.handler = s.overlays # 1, !.isOpening = @ /\ s.overlays # 1]

-------------------------------------------------------------------------------

(* open of a closed dialog: over everything else, its overlay just below   *)
(* it, and with the focus.  Bound: not one that was switched.              *)
Open(d) ==
  /\ d \notin dlg.open \cup switched
  /\ Max(Beside(dlg, d) \cup {BaseZ}) < MaxZ
  /\ LET overlaid == createOverlay([dlg EXCEPT !.open = @ \cup {d}, !.opener[d] = dlg.focus], d)
         moved == moveToTop(overlaid, d)
         lowered == [moved EXCEPT !.overlay[d] = IF @ = Nowhere THEN @ ELSE moved.z[d] - 1]
     IN  dlg' = makeFocusTarget(focusOn(lowered, d), d)
  /\ top' = d
  /\ UNCHANGED switched

(* open of an open dialog, and a click on one that no overlay covers: to   *)
(* the top, and the focus if it was not there.                             *)
BringToTop(d, click) ==
  /\ d \in dlg.open
  /\ Max(Beside(dlg, d) \cup {BaseZ}) < MaxZ
  /\ click => \A e \in Dialogs : dlg.overlay[e] # Nowhere => dlg.overlay[e] < dlg.z[d]
  /\ LET moved == moveToTop(dlg, d)
     IN  dlg' = IF moved # dlg THEN focusOn(moved, d) ELSE dlg
  /\ top' = d
  /\ UNCHANGED switched

(* close, unless beforeClose forbids it: the focus goes back to what had   *)
(* it before, if that can have it.                                         *)
Close(d) ==
  /\ d \in dlg.open
  /\ LET closed == untrack(destroyOverlay([dlg EXCEPT !.open = @ \ {d}], d), d)
         opener == dlg.opener[d]
     IN  dlg' = IF opener = Page \/ opener \in dlg.open \ {d} THEN focusOn(closed, opener)
                ELSE [closed EXCEPT !.focus = Nowhere]
  /\ top' = IF top = d THEN Nowhere ELSE top
  /\ UNCHANGED switched

(* destroy, and a new dialog in its place with the option given; what had  *)
(* the focus in it has lost it.  Bound: not where an overlay may be left   *)
(* that the new dialog knows nothing of.                                   *)
Renew(d, modal) ==
  /\ d \notin switched
  /\ LET gone == destroyOverlay(untrack(dlg, d), d)
     IN  dlg' = [gone EXCEPT !.open = @ \ {d}, !.z[d] = BaseZ, !.opener[d] = Nowhere,
                             !.modal = IF modal THEN @ \cup {d} ELSE @ \ {d},
                             !.focus = IF @ = d THEN Nowhere ELSE @]
  /\ top' = IF top = d THEN Nowhere ELSE top
  /\ UNCHANGED switched

(* option("modal", ...): nothing is done about an overlay.                 *)
SetModal(d, modal) ==
  /\ dlg' = [dlg EXCEPT !.modal = IF modal THEN @ \cup {d} ELSE @ \ {d}]
  /\ switched' = IF d \in dlg.open /\ (modal <=> d \notin dlg.modal) THEN switched \cup {d} ELSE switched
  /\ UNCHANGED top

(* The user moves the focus, or clicks on the topmost overlay, whose       *)
(* dialog takes the focus back.                                            *)
MoveFocus(target) ==
  /\ target \in {Page} \cup dlg.open
  /\ dlg' = focusOn(dlg, target)
  /\ UNCHANGED <<top, switched>>

KeepFocus(d) ==
  /\ dlg.overlay[d] # Nowhere /\ d \in dlg.open
  /\ \A e \in Dialogs : dlg.overlay[e] # Nowhere => dlg.overlay[e] <= dlg.overlay[d]
  /\ dlg.focus # d
  /\ dlg' = focusOn(dlg, d)
  /\ UNCHANGED <<top, switched>>

(* The timer of createOverlay. *)
OpeningEnds ==
  /\ dlg.isOpening
  /\ dlg' = [dlg EXCEPT !.isOpening = FALSE]
  /\ UNCHANGED <<top, switched>>

(* The page is loaded again. *)
Restart ==
  /\ dlg' = [dlg EXCEPT !.open = {}, !.modal = {}, !.z = [d \in Dialogs |-> BaseZ],
                        !.overlay = [d \in Dialogs |-> Nowhere], !.overlays = 0,
                        !.handler = FALSE, !.isOpening = FALSE, !.instances = <<>>,
                        !.opener = [d \in Dialogs |-> Nowhere], !.focus = Nowhere]
  /\ top' = Nowhere /\ switched' = {}

DialogNext ==
  \/ \E d \in Dialogs :
       \/ Open(d) \/ Close(d) \/ KeepFocus(d)
       \/ \E b \in BOOLEAN : BringToTop(d, b) \/ Renew(d, b) \/ SetModal(d, b)
  \/ \E target \in {Page} \cup Dialogs : MoveFocus(target)
  \/ OpeningEnds \/ Restart

-------------------------------------------------------------------------------

DialogTypeOK ==
  /\ dlg.open \subseteq Dialogs /\ dlg.modal \subseteq Dialogs
  /\ dlg.z \in [Dialogs -> BaseZ..MaxZ]
  /\ dlg.overlays \in 0..Cardinality(Dialogs)
  /\ dlg.focus \in Dialogs \cup {Page, Nowhere}
  /\ dlg.handler \in BOOLEAN /\ dlg.isOpening \in BOOLEAN

(* The list on the document holds the open dialogs, each once: the handler *)
(* always finds one to give the focus to, and never one that is closed.    *)
InstancesAreOpen ==
  IsInjective(dlg.instances) /\ Range(dlg.instances) = dlg.open

(* As long as no dialog changes its kind while it is open: every open      *)
(* modal dialog has its overlay just below it, no other has one, they are  *)
(* counted, and the handler is attached exactly while there are any.       *)
OverlaysOfModal ==
  switched = {} =>
    /\ \A d \in Dialogs : dlg.overlay[d] # Nowhere <=> d \in dlg.open \cap dlg.modal
    /\ \A d \in dlg.open \cap dlg.modal : dlg.overlay[d] < dlg.z[d]
    /\ dlg.overlays = Cardinality(dlg.open \cap dlg.modal)
    /\ dlg.handler <=> dlg.overlays > 0

(* The dialog that was opened or brought to the top last lies over all     *)
(* that is open, overlays included.                                        *)
TopIsOnTop ==
  top # Nowhere => \A z \in Beside(dlg, top) : z < dlg.z[top]

(* While a modal dialog is open the focus does not get out to the page,    *)
(* neither by the user nor when another dialog gives it back to its        *)
(* opener; except in the instant in which the first of them opens.         *)
ModalKeepsFocus ==
  [][switched' = {} /\ dlg.handler /\ dlg'.handler /\ ~dlg.isOpening => (dlg'.focus = Page => dlg.focus = Page)]_dialogVars
=============================================================================
