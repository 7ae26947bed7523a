---------------------------- MODULE NamedParameter ----------------------------
(***************************************************************************)
(* A statement with named parameters, NamedParameterStatementUtil, which   *)
(* the queries of DatabaseUtil go through.  A query is a sequence of       *)
(* characters; Letters may begin a name and Digits be in one.              *)
(***************************************************************************)
EXTENDS Integers, FiniteSets, SequencesExt

CONSTANTS
  Letters,
  Digits,
  MaxLength       \* bound on the length of a query

Marks == {":", "@"}
Quotes == {"'", "\""}
NoQuote == "none"
Characters == Letters \cup Digits \cup Marks \cup Quotes \cup {" "}

ASSUME NamedParameterAssumption ==
  /\ MaxLength \in Nat
  /\ (Letters \cup Digits) \cap (Marks \cup Quotes \cup {" "}) = {}

VARIABLES
  query,
  wrapped,        \* the text of the PreparedStatement and indexMap
  bound           \* the names whose value each index has been set to

statementVars == <<query, wrapped, bound>>

(* What is at i begins a parameter, unless it is quoted; and its name.     *)
begins(q, i) == q[i] \in Marks /\ i < Len(q) /\ q[i + 1] \in Letters
name(q, i) ==
  LET end == CHOOSE j \in i + 1..Len(q) :
               /\ \A k \in i + 1..j : q[k] \in Letters \cup Digits
               /\ j = Len(q) \/ q[j + 1] \notin Letters \cup Digits
  IN  SubSeq(q, i + 1, end)

(* Mutant: a name has the index of its last occurrence only. *)
IndexedLast(map, n, index) == [m \in DOMAIN map \cup {n} |-> IF m = n THEN <<index>> ELSE map[m]]

Indexed(map, n, index) ==
  [m \in DOMAIN map \cup {n} |->
     (IF m \in DOMAIN map THEN map[m] ELSE <<>>) \o (IF m = n THEN <<index>> ELSE <<>>)]

NothingParsed == [text |-> <<>>, map |-> <<>>, index |-> 1, quote |-> NoQuote, next |-> 1]

(* The parse of q from a character on, if it was not skipped as a name's. *)
parseAt(q, s, i) ==
  LET c == q[i]
      kept == [s EXCEPT !.text = Append(@, c)]
  IN  IF i < s.next THEN s
      ELSE IF s.quote # NoQuote THEN [kept EXCEPT !.quote = IF c = @ THEN NoQuote ELSE @]
      ELSE IF c \in Quotes THEN [kept EXCEPT !.quote = c]
      ELSE IF begins(q, i)
           THEN [s EXCEPT !.text = Append(@, "?"), !.map = Indexed(@, name(q, i), s.index),
                          !.index = @ + 1, !.next = i + Len(name(q, i)) + 1]
           ELSE kept

(* The parse of the first characters of q, of as many as one likes.        *)
parsed(q) ==
  LET s[i \in 0..Len(q)] == IF i = 0 THEN NothingParsed ELSE parseAt(q, s[i - 1], i)
  IN  s

parse(q) == parsed(q)[Len(q)]

StatementInit == query = <<>> /\ wrapped = NothingParsed /\ bound = <<>>

(* A statement for a longer query is made.                                 *)
Prepare(c) ==
  /\ Len(query) < MaxLength
  /\ query' = Append(query, c)
  /\ wrapped' = parse(query')
  /\ bound' = [k \in 1..wrapped'.index - 1 |-> {}]

(* setParameterStatementValue: a map is read in any order, and a name the  *)
(* query does not have ends it with an exception.                          *)
SetValues(parameters) ==
  \E set \in SUBSET (parameters \cap DOMAIN wrapped.map) :
    /\ parameters \subseteq DOMAIN wrapped.map => set = parameters
    /\ bound' = [k \in DOMAIN bound |->
                   bound[k] \cup {n \in set : k \in Range(wrapped.map[n])}]
    /\ UNCHANGED <<query, wrapped>>

(* The names a caller gives values to: those of the query, or one it       *)
(* does not have with them.                                                *)
StatementNext ==
  \/ \E c \in Characters : Prepare(c)
  \/ \E parameters \in SUBSET DOMAIN wrapped.map, unknown \in {{}, {<<"unknown">>}} :
       SetValues(parameters \cup unknown)

-------------------------------------------------------------------------------

StatementTypeOK ==
  /\ query \in Seq(Characters) /\ Len(query) <= MaxLength
  /\ wrapped.quote \in Quotes \cup {NoQuote}
  /\ DOMAIN bound = 1..wrapped.index - 1
  /\ \A k \in DOMAIN bound : bound[k] \subseteq DOMAIN wrapped.map

(* How a database reads quotes: the one that is open after i characters.   *)
Open[i \in 0..Len(query)] ==
  IF i = 0 THEN NoQuote
  ELSE IF Open[i - 1] = NoQuote THEN IF query[i] \in Quotes THEN query[i] ELSE NoQuote
  ELSE IF query[i] = Open[i - 1] THEN NoQuote ELSE Open[i - 1]

Occurrences == {i \in DOMAIN query : Open[i - 1] = NoQuote /\ begins(query, i)}
IndexOf(i) == Cardinality({j \in Occurrences : j <= i})

(* The names of a query are those of its parameters outside of quotes, and *)
(* each has the indexes of all of its occurrences.                         *)
EveryOccurrenceIndexed ==
  /\ DOMAIN wrapped.map = {name(query, i) : i \in Occurrences}
  /\ \A n \in DOMAIN wrapped.map :
       Range(wrapped.map[n]) = {IndexOf(i) : i \in {o \in Occurrences : name(query, o) = n}}

(* Everything else, and quoted text above all, is left as it is.           *)
OthersKept ==
  LET inName(i) == \E o \in Occurrences : i \in o + 1..o + Len(name(query, o))
  IN  wrapped.text = FlattenSeq([i \in DOMAIN query |->
                                   IF i \in Occurrences THEN <<"?">>
                                   ELSE IF inName(i) THEN <<>> ELSE <<query[i]>>])

(* A value reaches its own parameter only, and wherever it occurs.         *)
ValuesReachTheirs ==
  \A i, j \in Occurrences :
    /\ bound[IndexOf(i)] \subseteq {name(query, i)}
    /\ name(query, i) = name(query, j) => bound[IndexOf(i)] = bound[IndexOf(j)]

(* The statement asks what the query asks, with every value in its place:  *)
(* names are those outside of quotes, the rest is untouched, and a value   *)
(* reaches all occurrences of its name and nothing else.                   *)
StatementAsAsked ==
  StatementTypeOK /\ EveryOccurrenceIndexed /\ OthersKept /\ ValuesReachTheirs
===============================================================================
