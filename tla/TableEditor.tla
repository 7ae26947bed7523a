----------------------------- MODULE TableEditor -----------------------------
(***************************************************************************)
(* The table data editor: the mask of views/tool/dbDoc.html over the rows  *)
(* of a database, and DbController.getDbFile, getDbData, editData and      *)
(* addData behind it.                                                      *)
(*                                                                         *)
(* The user opens a table, which asks the server for its columns; the      *)
(* answer builds a form.  GO posts what the form holds as a search, an     *)
(* edit or an insert; an edit or insert that succeeded is followed by a    *)
(* search with whatever the form holds by then.  Nothing stops the user    *)
(* from clicking while requests are under way, and answers come in any     *)
(* order or not at all.                                                    *)
(*                                                                         *)
(* The database is MySql, the one whose LIMIT clause the code writes.      *)
(***************************************************************************)
EXTENDS Integers, FiniteSets

CONSTANTS
  Tables,
  Columns,        \* the columns of each table
  Key,            \* those of its primary key
  PkField,        \* the first of them in the order of the catalogue
  Values,         \* what a column may hold
  Null,
  Blank,          \* an input the user left blank
  Expression,     \* a typed text that is more than a value once it is in a statement
  NoTable, NoForm, NoRequest,
  Stored,         \* the contents the database may start with
  Entries,        \* bound: what a user types into the form of each table
  Made,           \* bound: rows of each table that a text makes up, or of other rows
  Slots,          \* bound: requests under way at the same time
  MaxClicks       \* bound: tables opened and GO pressed

Row(t) == [Columns[t] -> Values \cup {Null}]
Input(t) == [Columns[t] -> Values \cup {Blank, Expression}]

(* What the database keeps of a table: no two rows with the same key, and  *)
(* no key with a null.                                                     *)
KeyOf(t, r) == [c \in Key[t] |-> r[c]]
Allowed(t, content) ==
  /\ \A r \in content, c \in Key[t] : r[c] # Null
  /\ Key[t] # {} => \A r, q \in content : KeyOf(t, r) = KeyOf(t, q) => r = q

(* What the page may post, what comes back, and the forms it may show.     *)
Kinds == {"file", "search", "edit", "add"}
Requests ==
  [at : {"server"}, kind : Kinds, table : Tables,
   input : {<<>>} \cup UNION {Input(t) : t \in Tables}, page : {0, 1}]
Replies ==
  [at : {"page"}, kind : Kinds, table : Tables, plain : BOOLEAN, ok : BOOLEAN,
   found : SUBSET UNION {Row(t) : t \in Tables}, count : Nat]
Form(t) == [of : {t}, input : Input(t)]

ASSUME TablesAssumption ==
  /\ MaxClicks \in Nat
  /\ NoTable \notin Tables /\ {Null, Blank, Expression} \cap Values = {}
  /\ Null # Blank /\ Expression \notin {Null, Blank}
  /\ NoRequest \notin Requests /\ NoRequest \notin Replies
  /\ \A t \in Tables : NoForm \notin Form(t)
  /\ \A t \in Tables : /\ IsFiniteSet(Columns[t]) /\ Key[t] \subseteq Columns[t]
                       /\ Key[t] # {} => PkField[t] \in Key[t]
  /\ \A t \in Tables : Entries[t] \subseteq Input(t) /\ Made[t] \subseteq Row(t)
  /\ \A content \in Stored :
       /\ content \in [Tables -> SUBSET UNION {Row(t) : t \in Tables}]
       /\ \A t \in Tables : content[t] \subseteq Row(t) /\ IsFiniteSet(content[t]) /\ Allowed(t, content[t])

VARIABLES
  rows,           \* the rows of each table
  title,          \* lblActTitle: the table the mask is open for
  form,           \* fmCondition: the table it was built from and its inputs
  pageNum,        \* txtPageNum - 1
  result,         \* divQueryResult: whose rows it holds, what of them, whether it shows,
                  \* and whether plain values were searched for
  flight,         \* the requests under way, with their answers
  last,           \* how the last request ended, and the count it reported
  hasty,          \* a click came while a request was under way, since a table was opened at rest
  clicks

page == <<title, form, pageNum, result>>
vars == <<rows, title, form, pageNum, result, flight, last, hasty, clicks>>

Idle == \A s \in Slots : flight[s] = NoRequest
Hidden == [of |-> NoTable, rows |-> {}, shown |-> FALSE, plain |-> TRUE]
Ended(what, count) == [what |-> what, count |-> count]

Init ==
  /\ rows \in Stored
  /\ title = NoTable /\ form = NoForm /\ pageNum = 0 /\ result = Hidden
  /\ flight = [s \in Slots |-> NoRequest]
  /\ last = Ended("none", 0)
  /\ hasty = FALSE /\ clicks = 0

-------------------------------------------------------------------------------
(* The page *)

(* $("#fmCondition").serializeArray(): nothing while there is no form. *)
Inputs == IF form = NoForm THEN <<>> ELSE form.input

(* Only a search sends the number of the page.                             *)
Request(kind, t) ==
  [at |-> "server", kind |-> kind, table |-> t, input |-> Inputs,
   page |-> IF kind = "search" THEN pageNum ELSE 0]
Plain(input) == \A c \in DOMAIN input : input[c] # Expression
Reply(r, ok, found, count) ==
  [at |-> "page", kind |-> r.kind, table |-> r.table, plain |-> Plain(r.input),
   ok |-> ok, found |-> found, count |-> count]

Click(s) == clicks < MaxClicks /\ clicks' = clicks + 1 /\ flight[s] = NoRequest

(* Mutant: the old results stay. *)
OpenKeepsResult(t, s) ==
  /\ Click(s) /\ hasty' = ~Idle
  /\ title' = t /\ form' = NoForm
  /\ flight' = [flight EXCEPT ![s] = [Request("file", t) EXCEPT !.input = <<>>]]
  /\ UNCHANGED <<rows, pageNum, result, last>>

(* Mutant: the old form stays until the new columns come. *)
OpenKeepsForm(t, s) ==
  /\ Click(s) /\ hasty' = ~Idle
  /\ title' = t /\ result' = Hidden
  /\ flight' = [flight EXCEPT ![s] = [Request("file", t) EXCEPT !.input = <<>>]]
  /\ UNCHANGED <<rows, form, pageNum, last>>

(* btnGetData and initQueryCondition *)
Open(t, s) ==
  /\ Click(s) /\ hasty' = ~Idle
  /\ title' = t /\ form' = NoForm /\ result' = Hidden
  /\ flight' = [flight EXCEPT ![s] = [Request("file", t) EXCEPT !.input = <<>>]]
  /\ UNCHANGED <<rows, pageNum, last>>

Type ==
  /\ form # NoForm
  /\ form' \in {[form EXCEPT !.input = i] : i \in Entries[form.of]}
  /\ pageNum' \in {0, 1}
  /\ UNCHANGED <<rows, title, result, flight, last, hasty, clicks>>

(* btnGo: the table is the one in the title. *)
Go(kind, s) ==
  /\ title # NoTable
  /\ Click(s) /\ hasty' = (hasty \/ ~Idle)
  /\ flight' = [flight EXCEPT ![s] = Request(kind, title)]
  /\ UNCHANGED <<rows, page, last>>

Done(s, what, count) ==
  /\ flight' = [flight EXCEPT ![s] = NoRequest]
  /\ last' = Ended(what, count)

Rejected(s) ==
  /\ flight[s] # NoRequest /\ flight[s].at = "page" /\ ~flight[s].ok
  /\ Done(s, "error", 0)
  /\ UNCHANGED <<rows, page, hasty, clicks>>

(* The columns have come: a new form, whichever table the title names. *)
ShowForm(s) ==
  /\ flight[s] # NoRequest /\ flight[s].at = "page" /\ flight[s].ok /\ flight[s].kind = "file"
  /\ form' = [of |-> flight[s].table, input |-> [c \in Columns[flight[s].table] |-> Blank]]
  /\ Done(s, "form", 0)
  /\ UNCHANGED <<rows, title, pageNum, result, hasty, clicks>>

(* A row of the answer under the labels of the form: "null" where the row  *)
(* has no such column.                                                     *)
Cells(r) == [c \in DOMAIN Inputs |-> IF c \in DOMAIN r THEN r[c] ELSE Null]

(* query's callback: an answer without rows leaves the old ones. *)
ShowRows(s) ==
  /\ flight[s] # NoRequest /\ flight[s].at = "page" /\ flight[s].ok /\ flight[s].kind = "search"
  /\ \/ /\ flight[s].found # {}
        /\ result' = [of |-> flight[s].table, shown |-> TRUE, plain |-> flight[s].plain,
                      rows |-> {Cells(r) : r \in flight[s].found}]
        /\ Done(s, "rows", 0)
     \/ /\ flight[s].found = {}
        /\ Done(s, "empty", 0)                           \* "无数据"
        /\ UNCHANGED result
  /\ UNCHANGED <<rows, title, form, pageNum, hasty, clicks>>

(* The callbacks of edit and add: "修改成功" or "添加成功", then a search  *)
(* of the same table with the form as it is now.                           *)
Saved(s) ==
  /\ flight[s] # NoRequest /\ flight[s].at = "page" /\ flight[s].ok /\ flight[s].kind \in {"edit", "add"}
  /\ flight' = [flight EXCEPT ![s] = Request("search", flight[s].table)]
  /\ last' = Ended(flight[s].kind, flight[s].count)
  /\ UNCHANGED <<rows, page, hasty, clicks>>

(* The request or its answer is lost; $.post has no error callback. *)
Lose(s) ==
  /\ flight[s] # NoRequest
  /\ Done(s, "lost", 0)
  /\ UNCHANGED <<rows, page, hasty, clicks>>

-------------------------------------------------------------------------------
(* The server *)

Filled(input) == {c \in DOMAIN input : input[c] # Blank}

(* Every filled column must be one of the table's: findFirst().get(). *)
Known(t, input) == Filled(input) \subseteq Columns[t]

Answer(s, ok, found, count) ==
  flight' = [flight EXCEPT ![s] = Reply(flight[s], ok, found, count)]

AtServer(s, kind) == flight[s] # NoRequest /\ flight[s].at = "server" /\ flight[s].kind = kind

(* Any request may fail: in the checks of the code, while it is carried    *)
(* out, or for want of a connection.                                       *)
Fails(s) ==
  /\ \E kind \in {"file", "search", "edit", "add"} : AtServer(s, kind)
  /\ Answer(s, FALSE, {}, 0)
  /\ UNCHANGED <<rows, page, last, hasty, clicks>>

GetDbFile(s) ==
  /\ AtServer(s, "file")
  /\ Answer(s, TRUE, {}, 0)
  /\ UNCHANGED <<rows, page, last, hasty, clicks>>

(* The first page holds all there are: a page is larger than a table here. *)
Found(t, input, at) ==
  IF at = 0 THEN {r \in rows[t] : \A c \in Filled(input) : r[c] = input[c]} ELSE {}

GetDbData(s) ==
  /\ AtServer(s, "search") /\ Known(flight[s].table, flight[s].input) /\ Plain(flight[s].input)
  /\ Answer(s, TRUE, Found(flight[s].table, flight[s].input, flight[s].page), 0)
  /\ UNCHANGED <<rows, page, last, hasty, clicks>>

(* WHERE: the rows an edit addresses. *)
Hit(t, input) == {r \in rows[t] : r[PkField[t]] = input[PkField[t]]}

(* SET: what an addressed row becomes. *)
After(t, input, r) ==
  [c \in Columns[t] |-> IF c \in Filled(input) \ {PkField[t]} THEN input[c] ELSE r[c]]

(* getEditSql throws, or writes a SET without a column, unless ... *)
EditAccepted(t, input) ==
  /\ Key[t] # {} /\ PkField[t] \in Filled(input)
  /\ Known(t, input) /\ Filled(input) # {PkField[t]}

EditData(s) ==
  /\ AtServer(s, "edit") /\ EditAccepted(flight[s].table, flight[s].input) /\ Plain(flight[s].input)
  /\ LET t == flight[s].table
         input == flight[s].input
         content == (rows[t] \ Hit(t, input)) \cup {After(t, input, r) : r \in Hit(t, input)}
     IN  /\ Allowed(t, content) /\ Cardinality(content) = Cardinality(rows[t])
         /\ rows' = [rows EXCEPT ![t] = content]
         /\ Answer(s, TRUE, {}, Cardinality(Hit(t, input)))
  /\ UNCHANGED <<page, last, hasty, clicks>>

(* getAddSql throws unless ... *)
AddAccepted(t, input) == Filled(input) # {} /\ Known(t, input)

(* The database chooses what the statement leaves out: a default, the next *)
(* number, a null.                                                         *)
AddData(s) ==
  /\ AtServer(s, "add") /\ AddAccepted(flight[s].table, flight[s].input) /\ Plain(flight[s].input)
  /\ LET t == flight[s].table
         input == flight[s].input
     IN  /\ \E r \in Row(t) :
              /\ \A c \in Filled(input) : r[c] = input[c]
              /\ Key[t] # {} => r \notin rows[t]
              /\ Allowed(t, rows[t] \cup {r})
              /\ rows' = [rows EXCEPT ![t] = @ \cup {r}]
         /\ Answer(s, TRUE, {}, 1)
  /\ UNCHANGED <<page, last, hasty, clicks>>

(* What is typed becomes part of the statement as it stands, and a text    *)
(* that is no plain value may change where, set or values clause: which    *)
(* rows are found, which columns of which rows are set and to what, and    *)
(* what becomes of a row with the key of an added one.  It stays one       *)
(* statement, that reads what it likes and writes the table it names.      *)
AsTyped(s, kind) == AtServer(s, kind) /\ ~Plain(flight[s].input)

Few(t) == {{}} \cup {{r} : r \in Made[t]}

GetDbDataAsTyped(s) ==
  /\ AsTyped(s, "search") /\ Known(flight[s].table, flight[s].input)
  /\ \E old \in SUBSET rows[flight[s].table], new \in Few(flight[s].table) :
       Answer(s, TRUE, old \cup new, 0)
  /\ UNCHANGED <<rows, page, last, hasty, clicks>>

EditDataAsTyped(s) ==
  /\ AsTyped(s, "edit") /\ EditAccepted(flight[s].table, flight[s].input)
  /\ LET t == flight[s].table
     IN  \E after \in [rows[t] -> rows[t] \cup Made[t]] :
           LET content == {after[r] : r \in rows[t]}
           IN  /\ Allowed(t, content) /\ Cardinality(content) = Cardinality(rows[t])
               /\ rows' = [rows EXCEPT ![t] = content]
               /\ \E count \in Cardinality({r \in rows[t] : after[r] # r})..Cardinality(rows[t]) :
                    Answer(s, TRUE, {}, count)
  /\ UNCHANGED <<page, last, hasty, clicks>>

AddDataAsTyped(s) ==
  /\ AsTyped(s, "add") /\ AddAccepted(flight[s].table, flight[s].input)
  /\ LET t == flight[s].table
     IN  \E after \in [rows[t] -> rows[t] \cup Made[t]], new \in Few(t) :
           LET content == {after[r] : r \in rows[t]} \cup new
           IN  /\ Allowed(t, content) /\ Cardinality(content) >= Cardinality(rows[t])
               /\ rows' = [rows EXCEPT ![t] = content]
  /\ Answer(s, TRUE, {}, 1)                             \* nobody reads this count
  /\ UNCHANGED <<page, last, hasty, clicks>>

-------------------------------------------------------------------------------
User(s) ==
  \/ \E t \in Tables : Open(t, s)
  \/ \E kind \in {"search", "edit", "add"} : Go(kind, s)

Callback(s) == Rejected(s) \/ ShowForm(s) \/ ShowRows(s) \/ Saved(s) \/ Lose(s)

Server(s) ==
  \/ Fails(s) \/ GetDbFile(s) \/ GetDbData(s) \/ EditData(s) \/ AddData(s)
  \/ GetDbDataAsTyped(s) \/ EditDataAsTyped(s) \/ AddDataAsTyped(s)

Next == Type \/ \E s \in Slots : User(s) \/ Callback(s) \/ Server(s)

Spec == Init /\ [][Next]_vars

-------------------------------------------------------------------------------
(* Types.  The rows of the database hold values or nulls, no two of a      *)
(* table share a key, and a form has the inputs of its table.              *)
TypeOK ==
  /\ \A t \in Tables : rows[t] \subseteq Row(t) /\ Allowed(t, rows[t])
  /\ title \in Tables \cup {NoTable}
  /\ form # NoForm => form.of \in Tables /\ form.input \in Input(form.of)
  /\ pageNum \in {0, 1}
  /\ result.shown \in BOOLEAN /\ result.plain \in BOOLEAN /\ result.of \in Tables \cup {NoTable}
  /\ \A s \in Slots : flight[s] # NoRequest =>
       /\ flight[s].at \in {"server", "page"} /\ flight[s].table \in Tables
       /\ flight[s].kind \in {"file", "search", "edit", "add"}
       /\ flight[s].at = "server" => flight[s].page \in {0, 1}
  /\ hasty \in BOOLEAN /\ clicks \in 0..MaxClicks

(* A user who waits for answers sees the rows of the table in the title    *)
(* and fills in the form of that table, also when an answer was lost or    *)
(* was an error: opening a table clears the form and the rows at once, not *)
(* when its columns come (initQueryCondition).                             *)
ShownMatchesTitle ==
  ~hasty =>
    /\ result.shown => result.of = title
    /\ form # NoForm => form.of = title

(* What that user sees after everything went well is what the database     *)
(* holds: an edit or insert brings its own search along.  It does not      *)
(* speak of a search without rows, of errors and of lost answers, after    *)
(* which the old rows stay, nor of a search for more than values, which    *)
(* may show anything (UNION).                                              *)
FreshResult ==
  ~hasty /\ Idle /\ result.shown /\ result.plain /\ last.what \in {"rows", "edit", "add"} =>
    result.rows \subseteq {Cells(r) : r \in rows[title]}

(* A user who waits sees the table of the title as the database has it.    *)
MaskCorrect == TypeOK /\ ShownMatchesTitle /\ FreshResult

OnlyTitledWritten ==
  \A t \in Tables : rows'[t] # rows[t] /\ ~hasty => title = t /\ form # NoForm /\ form.of = t

NoKeyLost ==
  \A t \in Tables : Cardinality(Key[t]) = 1 =>
    /\ {KeyOf(t, r) : r \in rows[t]} \subseteq {KeyOf(t, r) : r \in rows'[t]}
    /\ Cardinality(rows[t] \ rows'[t]) <= 1

(* The request that this step carries out, if any, holds plain values.     *)
PlainlyServed ==
  \A s \in Slots :
    flight'[s] # flight[s] /\ flight[s] # NoRequest /\ flight[s].at = "server" => Plain(flight[s].input)

(* While the user waits for answers, only the table in the title is        *)
(* written, and only from a form made of its own columns, although the     *)
(* requests carry no more than the title's text and loose names.           *)
WritesTitled == [][OnlyTitledWritten]_vars

(* Where the key is one column and the texts of a request are values, it   *)
(* makes at most one row different and no key goes away or is renamed, in  *)
(* whatever order requests are served (getEditSql keeps the key out of the *)
(* SET and alone in the WHERE).  With more columns it does not: an edit    *)
(* reaches every row that shares the first of them.  And it does not for   *)
(* a text that is more than a value, which getEditSql writes as it is.     *)
KeysAreKept == [][PlainlyServed => NoKeyLost]_vars

(* A click writes to the table of the title, and values lose no key of it. *)
WritesCorrect == WritesTitled /\ KeysAreKept

(* "修改成功" (line 600 of dbDoc.html): the page says that the row was     *)
(* modified only when the edit found one.                                  *)
ToldModified == last.what = "edit" => last.count > 0
===============================================================================
