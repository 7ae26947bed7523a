------------------------------ MODULE ExportAll ------------------------------
(***************************************************************************)
(* The download of the generated code of every table of a database:        *)
(* ExportController.exportAllFile with ZipUtil.compress and                *)
(* FileUtil.delete.                                                        *)
(*                                                                         *)
(* One request is modelled.  Requests share only the directory zip/, which *)
(* is never deleted; each works in a directory and an archive named by a   *)
(* UUID of its own.  A table may be dropped or altered between the listing *)
(* of the tables and the query for its columns.                            *)
(***************************************************************************)
EXTENDS Integers, Sequences, FiniteSets, SequencesExt

CONSTANTS
  Names,          \* what is left of a table's name in the name of its class
  Spellings,      \* how it may be spelled in the table's name
  MaxTables       \* bound: the most tables of the database

ASSUME BoundsAssumption == MaxTables \in Nat

Tables == [name : Names, spelling : Spellings]

(* The prefix t_, underscores and the case of letters after them are lost: *)
(* t_user_a, user_a and userA all become UserA.                            *)
ClassName(table) == table.name

(* The generators that frame the columns with text of their own write      *)
(* something for every table; refCloneObject writes a line per column.     *)
Types == {"framed", "CloneObject"}

(* What a directory, or an archive, holds: written files, each named by    *)
(* the class of its table, with the number of their lines.                 *)
File == [table : Tables, lines : 0..1]
FileName(file) == ClassName(file.table)
FileNames(files) == {FileName(file) : file \in files}

Absent == [exists |-> FALSE, files |-> {}]
Present(files) == [exists |-> TRUE, files |-> files]

VARIABLES
  type,           \* the kind of code that was asked for
  tables,         \* the tables, as listed at the start
  pc,             \* where the request is
  i,              \* tables the loop is done with
  code,           \* the code just generated, as how many lines it has
  dir, zip,       \* the request's directory and its archive
  todo,           \* files still to compress
  lost,           \* an exception was swallowed by ZipUtil
  reply,          \* how the browser was answered
  received        \* the files in the archive it got

vars == <<type, tables, pc, i, code, dir, zip, todo, lost, reply, received>>

Init ==
  /\ type \in Types
  /\ tables = <<>>
  /\ pc = "list"
  /\ i = 0 /\ code = 0
  /\ dir = Absent /\ zip = Absent
  /\ todo = {}
  /\ lost = FALSE
  /\ reply = "none" /\ received = {}

(* An IOException is logged and the (reset or untouched) response goes out *)
(* empty; any other exception is answered by GlobalExceptionHandler.       *)
Fail(how) == pc' = "done" /\ reply' = how

-------------------------------------------------------------------------------
(* Listing the tables, and the directory *)

List ==
  /\ pc = "list"
  /\ \/ /\ tables' \in {ts \in UNION {[1..n -> Tables] : n \in 0..MaxTables} : IsInjective(ts)}
        /\ pc' = "mkdir" /\ UNCHANGED reply
     \/ Fail("error") /\ UNCHANGED tables
  /\ UNCHANGED <<type, i, code, dir, zip, todo, lost, received>>

(* The results of mkdir are not looked at: it may have failed. *)
MakeDirectory ==
  /\ pc = "mkdir"
  /\ \/ Len(tables) > 0 /\ dir' = Present({})
     \/ UNCHANGED dir
  /\ pc' = "columns"
  /\ UNCHANGED <<type, tables, i, code, zip, todo, lost, reply, received>>

-------------------------------------------------------------------------------
(* The loop over the tables *)

(* Query the columns of the next table and generate its code.              *)
Generate ==
  /\ pc = "columns" /\ i < Len(tables)
  /\ \/ /\ \E columns \in 0..1 :
             code' = IF type = "CloneObject" THEN columns ELSE 1
        /\ pc' = "write" /\ UNCHANGED reply
     \/ Fail("error") /\ UNCHANGED code
  /\ UNCHANGED <<type, tables, i, dir, zip, todo, lost, received>>

(* Mutant: a file of the same name is written over. *)
OverwriteFile ==
  LET file == [table |-> tables[i + 1], lines |-> code]
  IN  /\ pc = "write" /\ dir.exists
      /\ dir' = Present({f \in dir.files : FileName(f) # FileName(file)} \cup {file})
      /\ i' = i + 1
      /\ pc' = "columns"
      /\ UNCHANGED <<type, tables, code, zip, todo, lost, reply, received>>

(* Write it, unless there is a file of that name already. *)
WriteFile ==
  LET file == [table |-> tables[i + 1], lines |-> code]
  IN  /\ pc = "write"
      /\ \/ /\ dir.exists
            /\ dir' = IF FileName(file) \in FileNames(dir.files) THEN dir
                      ELSE Present(dir.files \cup {file})
            /\ i' = i + 1
            /\ pc' = "columns" /\ UNCHANGED reply
         \/ Fail("empty") /\ UNCHANGED <<dir, i>>
      /\ UNCHANGED <<type, tables, code, zip, todo, lost, received>>

EndLoop ==
  /\ pc = "columns" /\ i = Len(tables)
  /\ pc' = IF Len(tables) > 0 THEN "open" ELSE "send"
  /\ UNCHANGED <<type, tables, i, code, dir, zip, todo, lost, reply, received>>

-------------------------------------------------------------------------------
(* ZipUtil.compress: an exception is printed and forgotten, be it on       *)
(* opening the archive, with one of the files, or on closing it.           *)

OpenArchive ==
  /\ pc = "open"
  /\ \/ /\ zip' = Present({}) /\ todo' = dir.files
        /\ pc' = "compress" /\ UNCHANGED lost
     \/ /\ lost' = TRUE
        /\ pc' = "delete" /\ UNCHANGED <<zip, todo>>
  /\ UNCHANGED <<type, tables, i, code, dir, reply, received>>

(* Mutant: the buffer of every file has size 0. *)
CompressNothing ==
  /\ pc = "compress" /\ todo # {}
  /\ pc' = "spin"
  /\ UNCHANGED <<type, tables, i, code, dir, zip, todo, lost, reply, received>>

(* The buffer has the size of the file.  Reading into one of size 0 always *)
(* returns 0 and never -1, so that an empty file is never done with.       *)
CompressFile ==
  /\ pc = "compress"
  /\ \E file \in todo :
       \/ /\ file.lines > 0
          /\ zip' = Present(zip.files \cup {file}) /\ todo' = todo \ {file}
          /\ UNCHANGED <<lost, pc>>
       \/ /\ file.lines = 0
          /\ pc' = "spin" /\ UNCHANGED <<zip, todo, lost>>
       \/ /\ lost' = TRUE /\ todo' = todo \ {file}
          /\ UNCHANGED <<zip, pc>>
  /\ UNCHANGED <<type, tables, i, code, dir, reply, received>>

CloseArchive ==
  /\ pc = "compress" /\ todo = {}
  /\ lost' \in {lost, TRUE}
  /\ pc' = "delete"
  /\ UNCHANGED <<type, tables, i, code, dir, zip, todo, reply, received>>

-------------------------------------------------------------------------------
DeleteDirectory ==
  /\ pc = "delete"
  /\ dir' = Absent
  /\ pc' = "send"
  /\ UNCHANGED <<type, tables, i, code, zip, todo, lost, reply, received>>

(* Read the archive and write it to the client, who may be gone. *)
Send ==
  /\ pc = "send"
  /\ \/ /\ zip.exists
        /\ reply' = "sent" /\ received' = zip.files
        /\ pc' = "deleteZip"
     \/ Fail("empty") /\ UNCHANGED received
  /\ UNCHANGED <<type, tables, i, code, dir, zip, todo, lost>>

DeleteArchive ==
  /\ pc = "deleteZip"
  /\ zip' = Absent
  /\ pc' = "done"
  /\ UNCHANGED <<type, tables, i, code, dir, todo, lost, reply, received>>

Next ==
  \/ List \/ MakeDirectory
  \/ Generate \/ WriteFile \/ EndLoop
  \/ OpenArchive \/ CompressFile \/ CloseArchive
  \/ DeleteDirectory \/ Send \/ DeleteArchive

(* The thread of the request runs; a spinning one runs too, in vain. *)
Spec == Init /\ [][Next]_vars

FairSpec == Spec /\ WF_vars(Next)

-------------------------------------------------------------------------------
(* Properties *)

TypeOK ==
  /\ type \in Types
  /\ tables \in Seq(Tables) /\ Len(tables) <= MaxTables
  /\ pc \in {"list", "mkdir", "columns", "write", "open", "compress", "spin", "delete",
             "send", "deleteZip", "done"}
  /\ i \in 0..Len(tables) /\ code \in 0..1
  /\ dir \in [exists : BOOLEAN, files : SUBSET File]
  /\ zip \in [exists : BOOLEAN, files : SUBSET File]
  /\ todo \subseteq dir.files
  /\ lost \in BOOLEAN
  /\ reply \in {"none", "empty", "error", "sent"} /\ received \subseteq File

Classes == {ClassName(tables[k]) : k \in DOMAIN tables}
FirstOf(n) == tables[CHOOSE k \in DOMAIN tables :
                       /\ ClassName(tables[k]) = n
                       /\ \A j \in 1..(k - 1) : ClassName(tables[j]) # n]

(* What is sent holds the class of every table, and of tables whose        *)
(* classes have the same name the first one listed; only an exception that *)
(* ZipUtil swallowed makes it less.                                        *)
ArchiveComplete ==
  reply = "sent" =>
    /\ \A file \in received : file.table = FirstOf(FileName(file))
    /\ lost \/ FileNames(received) = Classes

(* A request that is over has left nothing on the disk if it sent its      *)
(* archive.  Otherwise it has left its directory, if a table was at fault, *)
(* or the archive, if the client was; never both.                          *)
LeftBehind ==
  pc = "done" =>
    /\ reply = "sent" => ~ dir.exists /\ ~ zip.exists
    /\ ~ dir.exists \/ ~ zip.exists
    /\ dir.exists => i < Len(tables)
    /\ zip.exists => reply = "empty" /\ i = Len(tables)

(* The files of an export are accounted for: in the archive as it was      *)
(* sent, or on the disk where a failure left them.                         *)
FilesAccounted == TypeOK /\ ArchiveComplete /\ LeftBehind

(* Every request ends, however its steps fail, or spins at an empty file,  *)
(* which only refCloneObject writes.                                       *)
EndsOrSpins == <>(pc = "done" \/ (pc = "spin" /\ type = "CloneObject"))
===============================================================================
