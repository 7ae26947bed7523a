----------------------------- MODULE MCPageScripts -----------------------------
(***************************************************************************)
(* The scripts below the pages: what jquery-1.8.2.js, nprogress.js and     *)
(* jquery-ui.js do for every one of them.  They share no state, so that a  *)
(* behavior is that of one of them, its subject.                           *)
(***************************************************************************)
EXTENDS AjaxRequests, CallbackList, Deferred, FxQueue, EventHandlers, Effects

CONSTANTS Subjects, e1, e2

VARIABLE subject

scriptVars == <<subject, ajaxVars, listVars, deferredVars, fxVars, eventVars, effectsVars>>

Is(s) == subject = s /\ UNCHANGED subject

Init ==
  /\ subject \in Subjects
  /\ AjaxInit /\ ListInit /\ DeferredInit /\ FxInit /\ EventInit /\ EffectsInit
  /\ subject # "list" => cbList.options = {}
  /\ subject # "effects" => page = CHOOSE p \in Pages : TRUE

AjaxStep ==
  /\ Is("ajax") /\ AjaxNext
  /\ UNCHANGED <<listVars, deferredVars, fxVars, eventVars, effectsVars>>
ListStep ==
  /\ Is("list") /\ ListNext
  /\ UNCHANGED <<ajaxVars, deferredVars, fxVars, eventVars, effectsVars>>
DeferredStep ==
  /\ Is("deferred") /\ DeferredNext
  /\ UNCHANGED <<ajaxVars, listVars, fxVars, eventVars, effectsVars>>
FxStep ==
  /\ Is("fx") /\ FxNext
  /\ UNCHANGED <<ajaxVars, listVars, deferredVars, eventVars, effectsVars>>
EventStep ==
  /\ Is("events") /\ EventNext
  /\ UNCHANGED <<ajaxVars, listVars, deferredVars, fxVars, effectsVars>>
EffectsStep ==
  /\ Is("effects") /\ EffectsNext
  /\ UNCHANGED <<ajaxVars, listVars, deferredVars, fxVars, eventVars>>

Next == AjaxStep \/ ListStep \/ DeferredStep \/ FxStep \/ EventStep \/ EffectsStep

Spec == Init /\ [][Next]_scriptVars /\ AjaxFair

\* Two calls at a time, also of an effect that is one animation and one that is
\* several; effects on one element or both, with and without a placeholder; and
\* every effect for one element.
SomePages ==
  {[kinds |-> {"fade", "fold"}, sets |-> {<<e1, e2>>}, calls |-> {1, 2}],
   [kinds |-> {"blind", "fade"}, sets |-> {<<e1>>, <<e2>>, <<e1, e2>>}, calls |-> {1}],
   [kinds |-> EffectKinds, sets |-> {<<e1>>}, calls |-> {1}]}

-------------------------------------------------------------------------------

(* Callbacks that add, remove, fire, settle and throw while lists are      *)
(* being fired: each is called in its round and once, deferreds settle in  *)
(* one way, and all handlers of that way are called.                       *)
CallbacksCorrect ==
  /\ ListTypeOK /\ RoundCallsEach
  /\ DeferredTypeOK /\ SettlesOneWay /\ EveryHandlerCalled

(* Calls come in order: of the fires of a list, of the notices of a        *)
(* deferred before it is settled, and of an event from the target          *)
(* outwards.                                                               *)
CallsInOrder == InOrderOfFires /\ NoNoticeAfterSettled /\ GoesOutwards
================================================================================
