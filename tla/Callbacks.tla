------------------------------ MODULE Callbacks ------------------------------
(***************************************************************************)
(* jQuery.Callbacks (jquery-1.8.2.js:937-1099) as operators on a list: the *)
(* closure's variables are the fields of a record.  The loop of fire() is  *)
(* cut at every callback, since a callback may call back into the list:    *)
(* begin, then call the callback at index and advance, then end.           *)
(***************************************************************************)
EXTENDS Integers, Sequences, SequencesExt

None == 0           \* no data: data are positive numbers

(* A new list; options holds those of "once", "memory", "stopOnFalse" that *)
(* are given.                                                              *)
NewList(options) ==
  [options |-> options, on |-> TRUE, list |-> <<>>, memory |-> None, data |-> None,
   fired |-> FALSE, firing |-> FALSE, start |-> 0, length |-> 0, index |-> 0,
   stacked |-> "once" \notin options, stack |-> <<>>]

has(l, c) == c \in Range(l.list)

disable(l) == [l EXCEPT !.on = FALSE, !.list = <<>>, !.stacked = FALSE, !.stack = <<>>,
                        !.memory = None]

lock(l) ==
  LET unstacked == [l EXCEPT !.stacked = FALSE, !.stack = <<>>]
  IN  IF l.memory = None THEN disable(unstacked) ELSE unstacked

(* fire(data), up to the first callback.                                   *)
begin(l, data) ==
  [l EXCEPT !.memory = IF "memory" \in l.options THEN data ELSE None,
            !.data = data, !.fired = TRUE, !.firing = TRUE,
            !.index = l.start + 1, !.start = 0, !.length = Len(l.list)]

(* The loop goes on with the callback at index.                            *)
more(l) == l.on /\ l.index <= l.length

(* fire(data), after the last callback.                                    *)
end(l) ==
  LET idle == [l EXCEPT !.firing = FALSE]
  IN  CASE ~l.on -> idle
        [] l.on /\ l.stacked ->
             IF l.stack = <<>> THEN idle
             ELSE begin([idle EXCEPT !.stack = Tail(@)], Head(l.stack))
        [] OTHER ->
             IF l.memory # None THEN [idle EXCEPT !.list = <<>>] ELSE disable(idle)

(* add(c), where c is not on the list: it joins the round that is being    *)
(* fired, or is called at once with the memory.                            *)
add(l, c) ==
  LET longer == [l EXCEPT !.list = Append(@, c)]
  IN  CASE ~l.on \/ has(l, c) -> l
        [] l.on /\ ~has(l, c) /\ l.firing -> [longer EXCEPT !.length = Len(longer.list)]
        [] l.on /\ ~has(l, c) /\ ~l.firing ->
             IF l.memory = None THEN longer
             ELSE begin([longer EXCEPT !.start = Len(l.list)], l.memory)

place(l, c) == CHOOSE i \in DOMAIN l.list : l.list[i] = c

(* Mutant: remove forgets the index of the round. *)
removeUnindexed(l, c) ==
  LET shorter == [l EXCEPT !.list = RemoveAt(@, place(l, c))]
  IN  IF ~has(l, c) THEN l
      ELSE IF l.firing THEN [shorter EXCEPT !.length = @ - 1] ELSE shorter

(* remove(c), with the indexes of the round that is being fired.           *)
remove(l, c) ==
  LET at == place(l, c)
      shorter == [l EXCEPT !.list = RemoveAt(@, at)]
  IN  IF ~has(l, c) THEN l
      ELSE IF l.firing
        THEN [shorter EXCEPT !.length = @ - 1, !.index = IF at <= @ THEN @ - 1 ELSE @]
        ELSE shorter

(* Mutant: a list that may be fired once is fired again. *)
fireWithAgain(l, data) ==
  IF l.on
    THEN IF l.firing THEN [l EXCEPT !.stack = Append(@, data)] ELSE begin(l, data)
    ELSE l

(* fireWith(context, args): during a fire, the data wait for their round.  *)
fireWith(l, data) ==
  IF l.on /\ (~l.fired \/ l.stacked)
    THEN IF l.firing THEN [l EXCEPT !.stack = Append(@, data)] ELSE begin(l, data)
    ELSE l
=============================================================================
