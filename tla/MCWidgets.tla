------------------------------ MODULE MCWidgets ------------------------------
(***************************************************************************)
(* The widgets of jquery-ui.js.  They share no state, so that a behavior   *)
(* is that of one of them, its subject; the others stay as they begin,     *)
(* in one way of those there are.                                          *)
(***************************************************************************)
EXTENDS DialogStack, Tabs, Accordion, Menu, Autocomplete, MouseWidgets, DragDrop,
        Slider, Spinner, Tooltip, SelectMenu, Sortable, Selectable, Datepicker, Calendar

VARIABLE subject

widgetVars == <<subject, dialogVars, tabs, accordion, menu, ac, mouse, drag, slider,
                spinner, tip, select, sort, lasso, pickerVars, calendarVars>>

Subjects ==
  {"dialogs", "tabs", "accordion", "menu", "autocomplete", "mouse", "drag", "slider",
   "spinner", "tooltip", "select", "sortable", "selectable", "datepicker", "calendar"}

Init ==
  /\ subject \in Subjects
  /\ DialogInit /\ MenuInit /\ SelectInit /\ SortableInit /\ DatepickerInit /\ CalendarInit
  /\ TabsInit /\ (subject # "tabs" => tabs.collapsible /\ tabs.animated)
  /\ AccordionInit /\ (subject # "accordion" => accordion.collapsible /\ accordion.animate)
  /\ AutocompleteInit /\ (subject # "autocomplete" => ac.source = "url")
  /\ MouseInit /\ (subject # "mouse" => mouse.delay /\ mouse.distance)
  /\ DragInit /\ (subject # "drag" => drag.accepts = {} /\ drag.disabled = {}
                                     /\ drag.greedy /\ drag.parentFirst)
  /\ SliderInit /\ (subject # "slider" => ~slider.two /\ slider.step = 1 /\ slider.max = 1)
  /\ SpinnerInit /\ (subject # "spinner" => spinner.text = 0)
  /\ TooltipInit /\ (subject # "tooltip" => tip.async)
  /\ SelectableInit /\ (subject # "selectable" => lasso.auto /\ lasso.tolerance = "fit"
                                                /\ lasso.selected = {})

Is(s) == subject = s /\ UNCHANGED subject

DialogStep ==
  /\ Is("dialogs") /\ DialogNext
  /\ UNCHANGED <<tabs, accordion, menu, ac, mouse, drag, slider, spinner, tip, select, sort,
                 lasso, pickerVars, calendarVars>>
TabsStep ==
  /\ Is("tabs") /\ TabsNext
  /\ UNCHANGED <<dialogVars, accordion, menu, ac, mouse, drag, slider, spinner, tip, select,
                 sort, lasso, pickerVars, calendarVars>>
AccordionStep ==
  /\ Is("accordion") /\ AccordionNext
  /\ UNCHANGED <<dialogVars, tabs, menu, ac, mouse, drag, slider, spinner, tip, select, sort,
                 lasso, pickerVars, calendarVars>>
MenuStep ==
  /\ Is("menu") /\ MenuNext
  /\ UNCHANGED <<dialogVars, tabs, accordion, ac, mouse, drag, slider, spinner, tip, select,
                 sort, lasso, pickerVars, calendarVars>>
AutocompleteStep ==
  /\ Is("autocomplete") /\ AutocompleteNext
  /\ UNCHANGED <<dialogVars, tabs, accordion, menu, mouse, drag, slider, spinner, tip, select,
                 sort, lasso, pickerVars, calendarVars>>
MouseStep ==
  /\ Is("mouse") /\ MouseNext
  /\ UNCHANGED <<dialogVars, tabs, accordion, menu, ac, drag, slider, spinner, tip, select,
                 sort, lasso, pickerVars, calendarVars>>
DragStep ==
  /\ Is("drag") /\ DragNext
  /\ UNCHANGED <<dialogVars, tabs, accordion, menu, ac, mouse, slider, spinner, tip, select,
                 sort, lasso, pickerVars, calendarVars>>
SliderStep ==
  /\ Is("slider") /\ SliderNext
  /\ UNCHANGED <<dialogVars, tabs, accordion, menu, ac, mouse, drag, spinner, tip, select, sort,
                 lasso, pickerVars, calendarVars>>
SpinnerStep ==
  /\ Is("spinner") /\ SpinnerNext
  /\ UNCHANGED <<dialogVars, tabs, accordion, menu, ac, mouse, drag, slider, tip, select, sort,
                 lasso, pickerVars, calendarVars>>
TooltipStep ==
  /\ Is("tooltip") /\ TooltipNext
  /\ UNCHANGED <<dialogVars, tabs, accordion, menu, ac, mouse, drag, slider, spinner, select,
                 sort, lasso, pickerVars, calendarVars>>
SelectStep ==
  /\ Is("select") /\ SelectNext
  /\ UNCHANGED <<dialogVars, tabs, accordion, menu, ac, mouse, drag, slider, spinner, tip, sort,
                 lasso, pickerVars, calendarVars>>
SortableStep ==
  /\ Is("sortable") /\ SortableNext
  /\ UNCHANGED <<dialogVars, tabs, accordion, menu, ac, mouse, drag, slider, spinner, tip,
                 select, lasso, pickerVars, calendarVars>>
SelectableStep ==
  /\ Is("selectable") /\ SelectableNext
  /\ UNCHANGED <<dialogVars, tabs, accordion, menu, ac, mouse, drag, slider, spinner, tip,
                 select, sort, pickerVars, calendarVars>>
DatepickerStep ==
  /\ Is("datepicker") /\ DatepickerNext
  /\ UNCHANGED <<dialogVars, tabs, accordion, menu, ac, mouse, drag, slider, spinner, tip,
                 select, sort, lasso, calendarVars>>
CalendarStep ==
  /\ Is("calendar") /\ CalendarNext
  /\ UNCHANGED <<dialogVars, tabs, accordion, menu, ac, mouse, drag, slider, spinner, tip,
                 select, sort, lasso, pickerVars>>

Next ==
  \/ DialogStep \/ TabsStep \/ AccordionStep \/ MenuStep \/ AutocompleteStep
  \/ MouseStep \/ DragStep \/ SliderStep \/ SpinnerStep \/ TooltipStep
  \/ SelectStep \/ SortableStep \/ SelectableStep \/ DatepickerStep \/ CalendarStep

Spec == Init /\ [][Next]_widgetVars

-------------------------------------------------------------------------------

\* Two menus below the first, the second item's and, deeper, that of its first item.
Tree == <<0, 0, 1, 3, 2>>

TwoLists == << <<11, 12>>, <<13>> >>

\* Two days of one month, one of the next.
TwoMonths == <<1, 1, 2>>

Day(y, m, d) == [y |-> y, m |-> m, d |-> d]
Leapday == Day(2024, 1, 29)

\* Without limits; with limits in the next month and the one before; two months
\* with limits on the last days of months; and a limit on the day itself.
SomeCalendars ==
  {[months |-> 1, at |-> 0, firstDay |-> 1, others |-> FALSE, inline |-> FALSE,
    min |-> NoDay, max |-> NoDay],
   [months |-> 1, at |-> 0, firstDay |-> 0, others |-> TRUE, inline |-> TRUE,
    min |-> Day(2024, 0, 31), max |-> Day(2024, 3, 1)],
   [months |-> 2, at |-> 1, firstDay |-> 0, others |-> TRUE, inline |-> TRUE,
    min |-> Day(2023, 10, 10), max |-> Day(2024, 2, 31)],
   [months |-> 2, at |-> 0, firstDay |-> 6, others |-> FALSE, inline |-> FALSE,
    min |-> NoDay, max |-> Leapday]}

\* Every letter of a format, short and long, quoted text, and texts without separators.
SomeFormats ==
  {<<"y", "y", "-", "m", "m", "-", "d", "d">>,
   <<"D", ",", " ", "d", " ", "M", " ", "y">>,
   <<"D", "D", "M", "M", "d", " ", "y">>,
   <<"d", "d", "m", "m", "y">>,
   <<"m", "/", "d", "/", "y", "y">>,
   <<"y", "o", "o">>,
   <<"o", "'", "d", "'", "'", "o", "'", "y", "y">>}

\* What is dead is left out: no step reads these fields before it has written
\* them, and no property more of them than that they have their type.
TabsView == IF tabs.running = "show" THEN [tabs EXCEPT !.old = NoTab, !.new = NoTab] ELSE tabs
SpinnerView ==
  [spinner EXCEPT !.keep = IF spinner.check THEN @ ELSE NoNumber,
                  !.previous = IF spinner.focused THEN @ ELSE NoNumber,
                  !.told = IF spinner.meddled THEN NoNumber ELSE @]
PickerView ==
  [picker EXCEPT !.of = [f \in Fields |-> IF f \in Edited THEN picker.of[f]
                                          ELSE [picker.of[f] EXCEPT !.lastVal = Unread]]]

\* All that tells two states of a behavior apart.
View ==
  CASE subject = "dialogs" -> <<subject, dialogVars>>
    [] subject = "tabs" -> <<subject, TabsView>>
    [] subject = "accordion" -> <<subject, accordion>>
    [] subject = "menu" -> <<subject, menu>>
    [] subject = "autocomplete" -> <<subject, ac>>
    [] subject = "mouse" -> <<subject, mouse>>
    [] subject = "drag" -> <<subject, drag>>
    [] subject = "slider" -> <<subject, slider>>
    [] subject = "spinner" -> <<subject, SpinnerView>>
    [] subject = "tooltip" -> <<subject, tip>>
    [] subject = "select" -> <<subject, select>>
    [] subject = "sortable" -> <<subject, sort>>
    [] subject = "selectable" -> <<subject, lasso>>
    [] subject = "datepicker" -> <<subject, PickerView, table>>
    [] subject = "calendar" -> <<subject, calendarVars>>

-------------------------------------------------------------------------------

(* The document's list of dialogs and number of overlays are those of the  *)
(* dialogs that are open, and the one on top is the one that was last      *)
(* there.                                                                  *)
DialogsCorrect ==
  DialogTypeOK /\ InstancesAreOpen /\ OverlaysOfModal /\ TopIsOnTop

(* Tabs and accordions show one panel, that of the active tab or header,   *)
(* whose index they know, though the page adds, removes and disables tabs, *)
(* panels are animated and loaded, and the user goes on meanwhile.         *)
PanelsCorrect ==
  /\ TabsTypeOK /\ IndexOfActive /\ SearchEnds /\ OnePanelShown
  /\ AccordionTypeOK /\ ActiveHasIndex /\ OnlyActiveShown /\ MarkedIsActive

(* The open submenus are one path from the root, whatever timers are       *)
(* running, and a select menu shows and takes what its native select has,  *)
(* although that one changes behind it.                                    *)
MenusCorrect ==
  /\ MenuTypeOK /\ OnePath /\ OpenFromRoot /\ ActiveVisible
  /\ SelectTypeOK /\ LabelIsSelection /\ EnterTakesActive

(* The menu of an autocompletion holds the answer to the newest search, is *)
(* closed when its field was left, and the search is shown as pending as   *)
(* long as it is.                                                          *)
NewestAnswerShown ==
  AutocompleteTypeOK /\ LoadingWhilePending /\ NewestShown /\ OpenHasFocus

(* A press becomes one click or one drag of one widget, after its own      *)
(* delay, and a lasso selects what it was drawn around and tells it.       *)
PressesCorrect ==
  /\ MouseTypeOK /\ DelayIsObeyed /\ OneHasThePress /\ ClickOrDrag
  /\ SelectableTypeOK /\ EventsTellSelection /\ LassoDecides

(* A drag leaves nothing behind on drop targets, of which one is taken,    *)
(* and a sort has one placeholder, in the list that was told.              *)
DragsCorrect ==
  /\ DragTypeOK /\ NothingLeftOver /\ OneIsGreedy
  /\ SortableTypeOK /\ PlaceholderWhileSorting /\ ToldIsHeld

(* A slider's handles keep their order and can be parted, a spinner turns  *)
(* only while it is held (unless it was disabled or destroyed as it        *)
(* turned), and both tell the page what has changed.                       *)
ValuesCorrect ==
  /\ SliderTypeOK /\ HandlesInOrder /\ ChangeIsTold /\ HandlesPart
  /\ SpinnerTypeOK /\ TurnsWhileHeld /\ LeftIsTold /\ BeginsSlowly

(* A tooltip is there for the pointer or the focus, one for a hover,       *)
(* however late its content comes, and no title is lost but where content  *)
(* comes late.                                                             *)
TooltipsCorrect ==
  TooltipTypeOK /\ ShownForCause /\ TitleComesBack /\ HoverShowsOne

(* The one calendar of the page serves the field it was opened for, and    *)
(* none keeps it from another.                                             *)
CalendarIsShared ==
  DatepickerTypeOK /\ CalendarIsOfField

(* A calendar draws all days of its months, and the one that is selected   *)
(* unless it was drawn again since; it lets the user reach what is         *)
(* allowed, and reads a date as it writes it.                              *)
DatesCorrect ==
  /\ CalendarTypeOK /\ GridIsComplete /\ SelectedIsDrawn /\ LinksReachAll /\ SelectShowsMonth
  /\ KeysKeepMonth /\ WeeksAreISO /\ ReadAsWritten /\ CanBeTyped

(* What is let go is dropped on what it is over, and a sort that is        *)
(* cancelled puts the item back.                                           *)
DropsCorrect ==
  DropsWhereItIsOver /\ CancelPutsBack
==============================================================================
