------------------------------- MODULE Deferred -------------------------------
(***************************************************************************)
(* jQuery.Deferred (jquery-1.8.2.js:1102-1187): three callback lists that  *)
(* disable and lock one another through callbacks of their own, at the     *)
(* head of the lists done and fail.  Any callback may resolve, reject,     *)
(* notify or add callbacks while lists are being fired, so the fire()      *)
(* calls under way form a stack.                                           *)
(***************************************************************************)
EXTENDS Callbacks

CONSTANTS
  Handlers,       \* callbacks of the users of the deferred
  MaxNotices      \* bound on the calls of notify

Lists == {"done", "fail", "progress"}
Final(n) == IF n = "done" THEN "resolved" ELSE "rejected"
Other(n) == IF n = "done" THEN "fail" ELSE "done"

Own == <<"state", "disable", "lock">>     \* the callbacks of the deferred itself

ASSUME DeferredAssumption == MaxNotices \in Nat /\ Handlers \cap Range(Own) = {}

VARIABLES
  lists,          \* the three lists
  dstate,         \* "pending", "resolved" or "rejected"
  frames,         \* the lists being fired, innermost first
  inside,         \* is a user's callback of the innermost list running?
  notices,        \* number of calls of notify
  added,          \* the callbacks added so far, with their list
  calls,          \* how often each was called
  broken          \* has a callback thrown?

deferredVars == <<lists, dstate, frames, inside, notices, added, calls, broken>>

DeferredInit ==
  /\ lists = [n \in Lists |->
                IF n = "progress" THEN NewList({"memory"})
                ELSE [NewList({"once", "memory"}) EXCEPT !.list = Own]]
  /\ dstate = "pending"
  /\ frames = <<>>
  /\ inside = FALSE
  /\ notices = 0
  /\ added = {}
  /\ calls = [p \in Lists \X Handlers |-> 0]
  /\ broken = FALSE

-------------------------------------------------------------------------------

(* List n becomes l, after an add or a fire, which may begin a round.      *)
Operated(n, l) ==
  LET begins == l.firing /\ ~lists[n].firing
  IN  /\ lists' = [lists EXCEPT ![n] = l]
      /\ frames' = IF begins THEN <<n>> \o frames ELSE frames
      /\ inside' = (inside /\ ~begins)

Free == frames = <<>> \/ inside     \* script of a user is running

(* resolve, reject and notify are the fire of the three lists.             *)
Resolve(n) ==
  /\ Free
  /\ n # "progress"
  /\ Operated(n, fireWith(lists[n], 1))
  /\ UNCHANGED <<dstate, notices, added, calls, broken>>

Notify ==
  /\ Free
  /\ notices < MaxNotices
  /\ notices' = notices + 1
  /\ Operated("progress", fireWith(lists["progress"], notices'))
  /\ UNCHANGED <<dstate, added, calls, broken>>

(* done, fail and progress are the add of the three lists.                 *)
AddHandler(n, c) ==
  /\ Free
  /\ <<n, c>> \notin added
  /\ added' = added \cup {<<n, c>>}
  /\ Operated(n, add(lists[n], c))
  /\ UNCHANGED <<dstate, notices, calls, broken>>

-------------------------------------------------------------------------------
(* fire() of the innermost list *)

Top == Head(frames)
Firing == frames # <<>> /\ ~inside
Current == lists[Top].list[lists[Top].index]
Advanced(ls) == [ls EXCEPT ![Top].index = @ + 1]

(* A callback of the deferred: it sets the state, disables the other list, *)
(* or locks the list of the notices.                                       *)
CallOwn ==
  /\ Firing /\ more(lists[Top]) /\ Current \in Range(Own)
  /\ dstate' = IF Current = "state" THEN Final(Top) ELSE dstate
  /\ lists' = Advanced(CASE Current = "state"   -> lists
                         [] Current = "disable" -> [lists EXCEPT ![Other(Top)] = disable(@)]
                         [] Current = "lock"    -> [lists EXCEPT !["progress"] = lock(@)])
  /\ UNCHANGED <<frames, inside, notices, added, calls, broken>>

CallHandler ==
  /\ Firing /\ more(lists[Top]) /\ Current \in Handlers
  /\ inside' = TRUE
  /\ calls' = [calls EXCEPT ![<<Top, Current>>] = @ + 1]
  /\ UNCHANGED <<lists, dstate, frames, notices, added, broken>>

HandlerReturns ==
  /\ inside
  /\ inside' = FALSE
  /\ lists' = Advanced(lists)
  /\ UNCHANGED <<dstate, frames, notices, added, calls, broken>>

(* An exception leaves every fire() under way; their lists stay firing.    *)
HandlerThrows ==
  /\ inside
  /\ inside' = FALSE
  /\ frames' = <<>>
  /\ broken' = TRUE
  /\ UNCHANGED <<lists, dstate, notices, added, calls>>

(* The round is over: another one begins, or fire() returns to the         *)
(* callback that called it, if one did.                                    *)
RoundEnds ==
  /\ Firing /\ ~more(lists[Top])
  /\ lists' = [lists EXCEPT ![Top] = end(@)]
  /\ frames' = IF lists'[Top].firing THEN frames ELSE Tail(frames)
  /\ inside' = (~lists'[Top].firing /\ Tail(frames) # <<>>)
  /\ UNCHANGED <<dstate, notices, added, calls, broken>>

DeferredNext ==
  \/ \E n \in Lists : Resolve(n) \/ \E c \in Handlers : AddHandler(n, c)
  \/ Notify
  \/ CallOwn \/ CallHandler \/ HandlerReturns \/ HandlerThrows \/ RoundEnds

-------------------------------------------------------------------------------

DeferredTypeOK ==
  /\ dstate \in {"pending", "resolved", "rejected"}
  /\ \A n \in Lists : Range(lists[n].list) \subseteq Range(Own) \cup Handlers
  /\ frames \in Seq(Lists) /\ Len(frames) <= 3
  /\ inside \in BOOLEAN /\ broken \in BOOLEAN
  /\ notices \in 0..MaxNotices
  /\ added \subseteq Lists \X Handlers

(* A deferred settles one way: the callbacks of the other way are never    *)
(* called, and those of its way not before it is settled, nor twice.       *)
SettlesOneWay ==
  \A n \in {"done", "fail"}, c \in Handlers :
     /\ calls[<<n, c>>] <= 1
     /\ calls[<<n, c>>] = 1 => dstate = Final(n)

(* When no script runs, every callback for the way it was settled has been *)
(* called, those included that callbacks have added; unless one threw.     *)
EveryHandlerCalled ==
  frames = <<>> /\ ~broken =>
    \A p \in added : dstate = Final(p[1]) /\ p[1] # "progress" => calls[p] = 1

(* No notice begins once the deferred is settled: of the callbacks for     *)
(* notices only those of a round already begun are called, and those added *)
(* later, with the last notice.                                            *)
NoNoticeAfterSettled ==
  [][dstate # "pending" /\ notices' # notices =>
       frames' = frames /\ lists'["progress"].data = lists["progress"].data]_deferredVars
=============================================================================
