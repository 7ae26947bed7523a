----------------------------- MODULE AjaxRequests -----------------------------
(***************************************************************************)
(* The requests of a page: jQuery.ajax with its counter of active queries, *)
(* the XMLHttpRequest transport, and the progress bar that common.js hangs *)
(* on ajaxStart and ajaxStop.  Script runs to completion: a step is one    *)
(* event, with all the callbacks it leads to.                              *)
(***************************************************************************)
EXTENDS NProgress, FiniteSets

CONSTANTS
  Requests,       \* the requests a page may have under way
  MaxTimers,      \* bound: no request starts the bar while more timers are set
  MaxLost         \* bound on the callbacks that throw between two loads

ASSUME AjaxAssumption == IsFiniteSet(Requests) /\ MaxTimers \in Nat /\ MaxLost \in Nat

VARIABLES
  sent,           \* requests in state 1: sent and not done
  timeouts,       \* requests whose timeoutTimer is set
  active,         \* jQuery.active
  lost,           \* how many callbacks have thrown, which the counter never learns
  bar             \* NProgress

ajaxVars == <<sent, timeouts, active, lost, bar>>

AjaxInit ==
  /\ sent = {}
  /\ timeouts = {}
  /\ active = 0
  /\ lost = 0
  /\ bar = NoBar

(* What a callback of a page does: it returns; it reads a property of null *)
(* and throws; or it sends one more request, with a timeout or without.    *)
Callbacks == {"returns", "throws", "sends"}

(* The counter and the bar when a request is counted (ajaxStart)...        *)
counted(page) ==
  [active |-> page.active + 1, bar |-> IF page.active = 0 THEN start(page.bar) ELSE page.bar]

(* Mutant: ajaxStop whenever a request is finished. *)
finishedAlways(page) == [active |-> page.active - 1, bar |-> done(page.bar)]

(* ... and when it is finished (ajaxStop).                                 *)
finished(page) ==
  [active |-> page.active - 1, bar |-> IF page.active = 1 THEN done(page.bar) ELSE page.bar]

(* The callbacks run before the counter goes down, so one that throws      *)
(* leaves it where it was, and one that sends counts its request first.    *)
afterCallback(page, callback) ==
  CASE callback = "returns" -> finished(page)
    [] callback = "throws"  -> page
    [] callback = "sends"   -> finished(counted(page))

MayStart == active > 0 \/ Len(bar.timers) < MaxTimers

(* done(status, ...) of a request, after which the others are under way:   *)
(* its timer is cleared and its callback runs, with the request it sends   *)
(* timed or not.  What is called once more in state 2 does nothing.        *)
doneWith(page, callback, others, timed) ==
  /\ active' = afterCallback(page, callback).active
  /\ bar' = afterCallback(page, callback).bar
  /\ callback = "throws" => lost < MaxLost
  /\ lost' = IF callback = "throws" THEN lost + 1 ELSE lost
  /\ \E new \in IF callback = "sends" THEN {{r} : r \in Requests \ sent} ELSE {{}} :
       /\ sent' = others \cup new
       /\ timeouts' = (timeouts \cap others) \cup (IF timed THEN new ELSE {})

-------------------------------------------------------------------------------

PageState == [active |-> active, bar |-> bar]

(* jQuery.ajax, asynchronous: counted, then sent, with a timer if the page *)
(* gives a timeout.                                                        *)
Send(r, timed) ==
  /\ r \notin sent
  /\ MayStart
  /\ active' = counted(PageState).active
  /\ bar' = counted(PageState).bar
  /\ sent' = sent \cup {r}
  /\ timeouts' = IF timed THEN timeouts \cup {r} ELSE timeouts
  /\ UNCHANGED lost

(* jQuery.ajax with async: false, as TopSearch of common.js calls it: the  *)
(* answer, and its callback, before the call returns.                      *)
SendAndWait(callback, timed) ==
  /\ MayStart
  /\ doneWith(counted(PageState), callback, sent, timed)

(* The transport's callback on readyState 4, with any status: a success or *)
(* an error, each with a callback of the page.                             *)
TransportAnswers(r, callback, timed) ==
  /\ r \in sent
  /\ doneWith(PageState, callback, sent \ {r}, timed)

(* The timer fires: abort("timeout") takes the callback from the transport *)
(* and calls done.                                                         *)
TimesOut(r, callback, timed) ==
  /\ r \in timeouts
  /\ doneWith(PageState, callback, sent \ {r}, timed)

(* A timer of the bar fires. *)
BarTimer ==
  /\ bar.timers # <<>>
  /\ bar' = fire(bar)
  /\ UNCHANGED <<sent, timeouts, active, lost>>

(* The page is loaded again. *)
Reload ==
  /\ sent' = {} /\ timeouts' = {}
  /\ active' = 0 /\ lost' = 0
  /\ bar' = NoBar

AjaxNext ==
  \/ \E timed \in BOOLEAN :
       \/ \E r \in Requests : Send(r, timed)
       \/ \E callback \in Callbacks :
            \/ SendAndWait(callback, timed)
            \/ \E r \in Requests :
                 \/ TransportAnswers(r, callback, timed)
                 \/ TimesOut(r, callback, timed)
  \/ BarTimer
  \/ Reload

(* Timers fire; nothing else must happen: a server may never answer.       *)
AjaxFair == WF_ajaxVars(BarTimer)

-------------------------------------------------------------------------------

AjaxTypeOK ==
  /\ sent \subseteq Requests
  /\ timeouts \subseteq sent
  /\ active \in Nat /\ lost \in 0..MaxLost
  /\ bar \in Bar

(* The counter of jQuery counts what is under way and what a callback that *)
(* threw has taken out of its sight (done, lines 7771-7811).               *)
ActiveCounts == active = Cardinality(sent) + lost

(* Progress is under way exactly while the counter is above zero: the bar  *)
(* is neither forgotten when requests overlap, nor ended by the first of   *)
(* them, nor started once more by a request a callback sends.              *)
BarWhileActive == bar.status # Null <=> active > 0

(* The removal of an old bar may take away the one of a new request; the   *)
(* next trickle puts it back.                                              *)
BarReturns == bar.status # Null ~> (bar.shown \/ bar.status = Null)

(* A bar whose progress is over goes away.                                 *)
BarGoes == bar.shown /\ bar.status = Null ~> (~bar.shown \/ bar.status # Null)

(* The counter and the progress agree with what is under way               *)
(* (jQuery.active, ajaxStart and ajaxStop).                                *)
RequestsCounted == AjaxTypeOK /\ ActiveCounts /\ BarWhileActive

(* The bar follows the progress: it comes back when the end of an old one  *)
(* has taken it away, and goes when there is none.                         *)
BarFollows == BarReturns /\ BarGoes
=============================================================================
