---------------------------- MODULE MCTableEditor ----------------------------
EXTENDS TableEditor, TLC

MCTables == {"user", "member"}
MCColumns == [t \in MCTables |-> {"id", "name"}]
MCKey == [t \in MCTables |-> IF t = "user" THEN {"id"} ELSE {"id", "name"}]
MCPkField == [t \in MCTables |-> "id"]

\* A key of one column, of which one value is free, and one of two.
MCStored ==
  {[t \in MCTables |->
      IF t = "user" THEN {[id |-> 1, name |-> 2]} ELSE {[id |-> 1, name |-> 1]}]}

\* Any values, and texts that are more than one: in the WHERE of an edit or in
\* its SET.
MCEntries == [t \in MCTables |->
  [id : {1, 2, Blank}, name : {1, Blank}]
    \cup {[id |-> Expression, name |-> 1], [id |-> 1, name |-> Expression]}]

MCMade == [t \in MCTables |-> {[id |-> 2, name |-> 1]}]

Symmetry == Permutations(Slots)
===============================================================================
