----------------------------- MODULE CallbackList -----------------------------
(***************************************************************************)
(* One list of jQuery.Callbacks in use: its owner adds, removes and fires, *)
(* and so do the callbacks while the list is being fired.  A callback may  *)
(* also throw, which leaves fire() with the variable firing still set.     *)
(* Callbacks are distinct, as with the option "unique".                    *)
(***************************************************************************)
EXTENDS Callbacks, FiniteSets

CONSTANTS
  Funs,           \* the callbacks
  MaxFires        \* bound on the calls of fire

ASSUME CallbackListAssumption == IsFiniteSet(Funs) /\ MaxFires \in Nat

VARIABLES
  cbList,         \* the list
  phase,          \* of fire(): not running, between two callbacks, in one, at the end
  fires,          \* how often fire was called; its data are numbered
  owed            \* the callbacks the current round still has to call

listVars == <<cbList, phase, fires, owed>>

Options == {{}, {"once"}, {"memory"}, {"once", "memory"}, {"stopOnFalse"}, {"memory", "stopOnFalse"}}

ListInit ==
  /\ \E options \in Options : cbList = NewList(options)
  /\ phase = "idle"
  /\ fires = 0
  /\ owed = {}

(* The callbacks a round over l still has to call, from an index on.       *)
DueFrom(l, index) == IF l.on THEN {l.list[i] : i \in index..l.length} ELSE {}
Due(l) == DueFrom(l, l.index)

(* An operation of the owner or of a callback makes the list l, with the   *)
(* callbacks left still to be called unless it begins a round.             *)
Becomes(l, left) ==
  LET begins == l.firing /\ ~cbList.firing
  IN  /\ cbList' = l
      /\ phase' = IF begins THEN "loop" ELSE phase
      /\ owed' = IF begins THEN Due(l) ELSE left

Add(c) ==
  /\ Becomes(add(cbList, c), IF cbList.firing /\ cbList.on /\ ~has(cbList, c) THEN owed \cup {c} ELSE owed)
  /\ UNCHANGED fires

RemoveFun(c) == Becomes(remove(cbList, c), owed \ {c}) /\ UNCHANGED fires

Fire ==
  /\ fires < MaxFires
  /\ fires' = fires + 1
  /\ Becomes(fireWith(cbList, fires'), owed)

Lock == Becomes(lock(cbList), IF cbList.memory = None THEN {} ELSE owed) /\ UNCHANGED fires
Disable == Becomes(disable(cbList), {}) /\ UNCHANGED fires

Operate ==
  /\ phase \in {"idle", "inside"}
  /\ Fire \/ Lock \/ Disable \/ \E c \in Funs : Add(c) \/ RemoveFun(c)

-------------------------------------------------------------------------------
(* fire() *)

Call ==
  /\ phase = "loop" /\ more(cbList)
  /\ phase' = "inside"
  /\ owed' = owed \ {cbList.list[cbList.index]}
  /\ UNCHANGED <<cbList, fires>>

Return ==
  /\ phase = "inside"
  /\ cbList' = [cbList EXCEPT !.index = @ + 1]
  /\ phase' = "loop"
  /\ UNCHANGED <<fires, owed>>

(* The callback returns false, and the list is to stop at that.            *)
ReturnFalse ==
  /\ phase = "inside" /\ "stopOnFalse" \in cbList.options
  /\ cbList' = [cbList EXCEPT !.memory = None]
  /\ phase' = "ending"
  /\ owed' = {}
  /\ UNCHANGED fires

Throw ==
  /\ phase = "inside"
  /\ phase' = "idle"
  /\ UNCHANGED <<cbList, fires, owed>>

End ==
  /\ phase = "ending" \/ (phase = "loop" /\ ~more(cbList))
  /\ cbList' = end(cbList)
  /\ phase' = IF cbList'.firing THEN "loop" ELSE "idle"
  /\ owed' = IF cbList'.firing THEN Due(cbList') ELSE owed
  /\ UNCHANGED fires

(* The owner lets go of the list and makes another.                        *)
Renew ==
  /\ phase = "idle"
  /\ \E options \in Options : cbList' = NewList(options)
  /\ fires' = 0 /\ owed' = {}
  /\ UNCHANGED phase

ListNext == Operate \/ Call \/ Return \/ ReturnFalse \/ Throw \/ End \/ Renew

-------------------------------------------------------------------------------

ListTypeOK ==
  /\ phase \in {"idle", "loop", "inside", "ending"}
  /\ fires \in 0..MaxFires
  /\ owed \subseteq Funs
  /\ Range(cbList.list) \subseteq Funs
  /\ cbList.index \in 0..Cardinality(Funs) + 1 /\ cbList.length \in 0..Cardinality(Funs)
  /\ Len(cbList.stack) <= MaxFires

(* Whatever callbacks add and remove, a round calls every callback that is *)
(* on the list when its turn comes, once: what the round still owes is     *)
(* what stands on the list from the index on.                              *)
RoundCallsEach ==
  CASE phase = "loop" -> owed = Due(cbList)
    [] phase = "inside" -> owed = DueFrom(cbList, cbList.index + 1)
    [] phase = "idle" /\ ~cbList.firing -> owed = {}
    [] OTHER -> TRUE

(* Data reach the callbacks in the order of the calls of fire, also when a *)
(* callback fires again; and a list that is to be fired once has only the  *)
(* data of the first call.                                                 *)
InOrderOfFires ==
  [][fires' # 0 => /\ cbList'.data >= cbList.data
                   /\ "once" \in cbList.options /\ cbList.fired => cbList'.data = cbList.data]_listVars
=============================================================================
