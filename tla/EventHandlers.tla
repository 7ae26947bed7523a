---------------------------- MODULE EventHandlers ----------------------------
(***************************************************************************)
(* jQuery's handlers of one type of event on a path of the document, from  *)
(* the target (1) to the document (jquery-1.8.2.js:2645-3060): add and     *)
(* remove, with delegated handlers in front of direct ones, and dispatch,  *)
(* during which a handler may add and remove handlers and stop the event.  *)
(* A delegated handler's selector matches the element of one level.        *)
(***************************************************************************)
EXTENDS Integers, Sequences, FiniteSets, SequencesExt

CONSTANTS
  Path,           \* number of elements from the target to the document
  MaxHandlers     \* bound on the handlers of an element

ASSUME EventAssumption == Path \in Nat \ {0} /\ MaxHandlers \in Nat

Nodes == 1..Path
Direct == 0
Namespaces == {"page", "widget"}

(* A handler of node n: direct, or for an element below it.                *)
HandleObjs(n) == [selector : 0..n - 1, namespace : Namespaces]

VARIABLES
  handlers,       \* events[type] of each node
  delegateCount,  \* its delegateCount
  listening,      \* the nodes with a native listener
  node,           \* the node being dispatched, or 0
  groups,         \* handlerQueue: what is still to run there
  stopped,        \* "no", "propagation" or "immediate"
  run             \* the handler that was run last, and where

eventVars == <<handlers, delegateCount, listening, node, groups, stopped, run>>

NothingRun == [handleObj |-> [selector |-> Direct, namespace |-> "page"], elem |-> 0, at |-> 0]

EventInit ==
  /\ handlers = [n \in Nodes |-> <<>>]
  /\ delegateCount = [n \in Nodes |-> 0]
  /\ listening = {}
  /\ node = 0
  /\ groups = <<>>
  /\ stopped = "no"
  /\ run = NothingRun

-------------------------------------------------------------------------------

(* event.add: the first handler attaches the listener; delegates in front. *)
EventAdd(n, obj) ==
  /\ Len(handlers[n]) < MaxHandlers
  /\ handlers' = [handlers EXCEPT ![n] = IF obj.selector = Direct THEN Append(@, obj)
                                         ELSE InsertAt(@, delegateCount[n] + 1, obj)]
  /\ delegateCount' = [delegateCount EXCEPT ![n] = IF obj.selector = Direct THEN @ ELSE @ + 1]
  /\ listening' = listening \cup {n}
  /\ UNCHANGED <<node, groups, stopped, run>>

(* Those remove(elem, "type.namespace", selector) takes off; selector "**" *)
(* stands for every delegate, and none given for all handlers.             *)
Removed(obj, namespace, selector) ==
  /\ obj.namespace = namespace
  /\ selector = "**" => obj.selector # Direct

(* The elements of a sequence at the places of a set, in order. *)
Those(seq, places) ==
  [k \in 1..Cardinality(places) |->
     seq[CHOOSE i \in places : Cardinality({j \in places : j < i}) = k - 1]]

(* Mutant: remove forgets the count of the delegates. *)
EventRemoveUncounted(n, namespace, selector) ==
  LET kept == {i \in DOMAIN handlers[n] : ~Removed(handlers[n][i], namespace, selector)}
  IN  /\ handlers' = [handlers EXCEPT ![n] = Those(@, kept)]
      /\ delegateCount' = [delegateCount EXCEPT ![n] = IF kept = {} THEN 0 ELSE @]
      /\ listening' = IF kept = {} THEN listening \ {n} ELSE listening
      /\ UNCHANGED <<node, groups, stopped, run>>

(* event.remove: the last handler takes the listener with it.              *)
EventRemove(n, namespace, selector) ==
  LET gone == {i \in DOMAIN handlers[n] : Removed(handlers[n][i], namespace, selector)}
      kept == DOMAIN handlers[n] \ gone
  IN  /\ handlers' = [handlers EXCEPT ![n] = Those(@, kept)]
      /\ delegateCount' = [delegateCount EXCEPT
           ![n] = @ - Cardinality({i \in gone : handlers[n][i].selector # Direct})]
      /\ listening' = IF kept = {} THEN listening \ {n} ELSE listening
      /\ UNCHANGED <<node, groups, stopped, run>>

Change ==
  \E n \in Nodes :
    \/ \E obj \in HandleObjs(n) : EventAdd(n, obj)
    \/ \E namespace \in Namespaces, selector \in {"**", ""} : EventRemove(n, namespace, selector)

-------------------------------------------------------------------------------

(* The handlerQueue of dispatch: for every element below n, the delegates  *)
(* that match it; then the handlers of n itself.                           *)
HandlerQueue(n) ==
  LET delegates(elem) == {i \in DOMAIN handlers[n] :
                            i <= delegateCount[n] /\ handlers[n][i].selector = elem}
      own == {i \in DOMAIN handlers[n] : i > delegateCount[n]}
      all == [elem \in 1..n |->
                [elem |-> elem, matches |-> Those(handlers[n], IF elem < n THEN delegates(elem) ELSE own)]]
  IN  Those(all, {elem \in 1..n : all[elem].matches # <<>>})

(* The browser takes an event to the first node with a listener, or on     *)
(* from one to the next.                                                   *)
Dispatch ==
  /\ groups = <<>> /\ stopped = "no"
  /\ \E n \in listening :
       /\ n > node /\ \A m \in listening : m > node => n <= m
       /\ node' = n
       /\ groups' = HandlerQueue(n)
  /\ UNCHANGED <<handlers, delegateCount, listening, stopped, run>>

(* The event is over, where no listener is left or it was stopped.         *)
EventEnds ==
  /\ node # 0 /\ groups = <<>>
  /\ stopped # "no" \/ \A m \in listening : m <= node
  /\ node' = 0 /\ stopped' = "no"
  /\ run' = NothingRun
  /\ UNCHANGED <<handlers, delegateCount, listening, groups>>

(* What is left to run when a handler of the first group has run and       *)
(* stopped the event like that: the rest of its group, unless at once, and *)
(* the other groups, unless it was stopped.                                *)
Left(how) ==
  LET first == Head(groups)
      same == IF Len(first.matches) > 1 /\ how # "immediate"
                THEN <<[first EXCEPT !.matches = Tail(@)]>> ELSE <<>>
  IN  same \o (IF how = "no" THEN Tail(groups) ELSE <<>>)

(* A handler runs.  A result of false is "propagation".                    *)
RunHandler ==
  /\ groups # <<>>
  /\ \E how \in {"no", "propagation", "immediate"} :
       /\ stopped' = IF how = "no" THEN stopped ELSE how
       /\ groups' = Left(stopped')
  /\ run' = [handleObj |-> Head(Head(groups).matches), elem |-> Head(groups).elem, at |-> node]
  /\ UNCHANGED <<handlers, delegateCount, listening, node>>

EventNext == Change \/ Dispatch \/ RunHandler \/ EventEnds

-------------------------------------------------------------------------------

EventTypeOK ==
  /\ \A n \in Nodes : Range(handlers[n]) \subseteq HandleObjs(n) /\ Len(handlers[n]) <= MaxHandlers
  /\ \A n \in Nodes : delegateCount[n] \in 0..MaxHandlers
  /\ listening \subseteq Nodes
  /\ node \in 0..Path
  /\ stopped \in {"no", "propagation", "immediate"}

(* However handlers are added and removed, also by handlers, the count     *)
(* tells the delegates from the others, and a node has a listener exactly  *)
(* while it has handlers.                                                  *)
DelegatesInFront ==
  \A n \in Nodes :
    /\ \A i \in DOMAIN handlers[n] : handlers[n][i].selector # Direct <=> i <= delegateCount[n]
    /\ n \in listening <=> handlers[n] # <<>>

(* A delegate runs on the element its selector names and nowhere else, a   *)
(* direct handler on the node it is bound to.                              *)
RunsWhereItMatches ==
  run.at # 0 => run.elem = IF run.handleObj.selector = Direct THEN run.at
                           ELSE run.handleObj.selector

(* An event goes outwards: nothing runs on an element inside one it has    *)
(* reached on the same node, nor on an outer one once it was stopped.      *)
GoesOutwards ==
  [][run' # run /\ run'.at = run.at /\ run.at # 0 /\ node # 0 =>
       /\ run'.elem >= run.elem
       /\ stopped = "propagation" => run'.elem = run.elem
       /\ stopped # "immediate"]_eventVars

(* Handlers that others add and remove during a dispatch keep the list and *)
(* its count of delegated ones in order, and run only where they were      *)
(* bound or delegated to.                                                  *)
HandlersCorrect == EventTypeOK /\ DelegatesInFront /\ RunsWhereItMatches
=============================================================================
