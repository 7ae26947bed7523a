---------------------------- MODULE ExportAllProofs ----------------------------
(***************************************************************************)
(* Theorems about the export of generated code, for any database: what is  *)
(* sent is complete, and what a failure leaves on the disk is known; and,  *)
(* in the second part, about the statements with named parameters that     *)
(* read the database, for any query.                                       *)
(***************************************************************************)
EXTENDS MCExportAll, FiniteSetTheorems, WellFoundedInduction, TLAPS

(* The file is of a table the loop is done with, the first of its class.   *)
First(k) == \A j \in 1..(k - 1) : ClassName(tables[j]) # ClassName(tables[k])
OfFirst(file) == \E k \in 1..i : file.table = tables[k] /\ First(k)

Done == {ClassName(tables[k]) : k \in 1..i}

InDirectory == {"columns", "write", "open", "compress", "spin", "delete"}
InArchive == {"compress", "spin", "delete", "send", "deleteZip"}

(* The directory has a file for every class of the tables done with, until *)
(* it is deleted; it is there while the request works in it.               *)
DirectoryFollows ==
  /\ pc \in {"list", "mkdir"} => dir = Absent /\ i = 0
  /\ pc \in {"columns", "write", "open"} => FileNames(dir.files) = Done
  /\ \A file \in dir.files : OfFirst(file)
  /\ dir.exists => /\ Len(tables) > 0
                   /\ pc \in InDirectory \/ (pc = "done" /\ i < Len(tables) /\ ~ zip.exists)
  /\ pc = "write" => i < Len(tables)
  /\ pc \in {"open", "compress", "spin", "delete", "send", "deleteZip"} => i = Len(tables)

(* The archive and the files still to compress make up all classes, unless *)
(* an exception was swallowed.                                             *)
ArchiveFollows ==
  /\ \A file \in zip.files \cup todo : OfFirst(file)
  /\ todo # {} => pc \in {"compress", "spin"} /\ zip.exists
  /\ zip.exists => /\ pc \in InArchive \/ (pc = "done" /\ reply = "empty" /\ i = Len(tables))
                   /\ lost \/ FileNames(zip.files \cup todo) = Done

ReplyFollows ==
  /\ reply = "sent" => /\ pc \in {"deleteZip", "done"} /\ i = Len(tables) /\ ~ dir.exists
                       /\ pc = "done" => ~ zip.exists
                       /\ \A file \in received : OfFirst(file)
                       /\ lost \/ FileNames(received) = Done
  /\ pc = "deleteZip" => reply = "sent"

IInv == TypeOK /\ DirectoryFollows /\ ArchiveFollows /\ ReplyFollows

-------------------------------------------------------------------------------
(* What stays while the tables, the loop and the directory are left alone. *)

LEMMA FirstKept ==
  ASSUME tables' = tables, i' = i
  PROVE  /\ Done' = Done
         /\ \A file : OfFirst(file)' <=> OfFirst(file)
BY DEF Done, OfFirst, First

LEMMA Places ==
  ASSUME TypeOK
  PROVE  Len(tables) \in Nat /\ DOMAIN tables = 1..Len(tables) /\ i \in Int
         /\ \A k \in 1..Len(tables) : tables[k] \in Tables
BY DEF TypeOK

(* A directory, or an archive, that is there, and one that is not.         *)
LEMMA Holds ==
  ASSUME NEW files, files \subseteq File
  PROVE  /\ Present(files) \in [exists : BOOLEAN, files : SUBSET File]
         /\ Present(files).files = files /\ Present(files).exists
BY DEF Present

LEMMA HoldsNothing ==
  /\ Absent \in [exists : BOOLEAN, files : SUBSET File]
  /\ Absent.files = {} /\ ~ Absent.exists
BY DEF Absent

LEMMA InitIInv == Init => IInv
<1> SUFFICES ASSUME Init PROVE IInv
  OBVIOUS
<1>1. TypeOK
  <2>1. tables \in Seq(Tables) /\ Len(tables) = 0
    BY DEF Init
  <2>2. i \in 0..Len(tables) /\ code \in 0..1 /\ Len(tables) <= MaxTables
    BY <2>1, BoundsAssumption DEF Init
  <2> QED BY <2>1, <2>2, HoldsNothing DEF Init, TypeOK
<1>2. DirectoryFollows /\ ArchiveFollows /\ ReplyFollows
  BY DEF Init, DirectoryFollows, ArchiveFollows, ReplyFollows, Absent
<1> QED BY <1>1, <1>2 DEF IInv

LEMMA ListStep ==
  ASSUME IInv, List
  PROVE  IInv'
<1>0. TypeOK /\ pc = "list" /\ dir = Absent /\ i = 0 /\ zip.exists = FALSE /\ todo = {} /\ reply # "sent"
  BY DEF IInv, List, DirectoryFollows, ArchiveFollows, ReplyFollows, InArchive, TypeOK
<1>1. /\ type' = type /\ i' = i /\ code' = code /\ dir' = dir /\ zip' = zip /\ todo' = todo
      /\ lost' = lost /\ received' = received
  BY DEF List
<1>2. \/ pc' = "mkdir" /\ reply' = reply
      \/ pc' = "done" /\ reply' = "error" /\ tables' = tables
  BY DEF List, Fail
<1>3. tables' \in Seq(Tables) /\ Len(tables') <= MaxTables /\ Len(tables') \in Nat
  <2>1. CASE tables' = tables
    BY <1>0, <2>1 DEF TypeOK
  <2>2. CASE tables' # tables
    <3>1. tables' \in UNION {[1..n -> Tables] : n \in 0..MaxTables}
      BY <2>2 DEF List
    <3>2. PICK n \in 0..MaxTables : tables' \in [1..n -> Tables]
      BY <3>1, Zenon
    <3>3. n \in Nat
      BY BoundsAssumption
    <3>4. tables' \in Seq(Tables)
      BY <3>2, <3>3
    <3>5. Len(tables') = n
      BY <3>2, <3>3, <3>4
    <3> QED BY <3>3, <3>4, <3>5, BoundsAssumption
  <2> QED BY <2>1, <2>2
<1>4. TypeOK'
  BY <1>0, <1>1, <1>2, <1>3 DEF TypeOK
<1>5. zip.files = {} /\ \A file \in zip.files \cup todo : OfFirst(file)'
  <2>1. \A file \in zip.files : FALSE
    BY <1>0 DEF IInv, ArchiveFollows, OfFirst
  <2> QED BY <1>0, <2>1
<1>6. DirectoryFollows' /\ ArchiveFollows' /\ ReplyFollows'
  BY <1>0, <1>1, <1>2, <1>5 DEF DirectoryFollows, ArchiveFollows, ReplyFollows, Absent
<1> QED BY <1>4, <1>6 DEF IInv

LEMMA MakeDirectoryStep ==
  ASSUME IInv, MakeDirectory
  PROVE  IInv'
<1>0. /\ TypeOK /\ pc = "mkdir" /\ dir = Absent /\ i = 0 /\ ~ zip.exists /\ todo = {}
      /\ reply # "sent"
  BY DEF IInv, MakeDirectory, DirectoryFollows, ArchiveFollows, ReplyFollows, InArchive
<1>1. /\ type' = type /\ tables' = tables /\ i' = i /\ code' = code /\ zip' = zip /\ todo' = todo
      /\ lost' = lost /\ reply' = reply /\ received' = received /\ pc' = "columns"
  BY DEF MakeDirectory
<1>2. /\ dir' \in [exists : BOOLEAN, files : SUBSET File] /\ dir'.files = {}
      /\ dir'.exists => Len(tables) > 0
  <2>1. (dir' = Present({}) /\ Len(tables) > 0) \/ dir' = Absent
    BY <1>0 DEF MakeDirectory
  <2> QED BY <2>1, Holds, HoldsNothing
<1>3. TypeOK'
  BY <1>0, <1>1, <1>2 DEF TypeOK
<1>4. DirectoryFollows'
  BY <1>0, <1>1, <1>2 DEF DirectoryFollows, FileNames, Done, InDirectory
<1>5. ArchiveFollows' /\ ReplyFollows'
  BY <1>0, <1>1, FirstKept DEF IInv, ArchiveFollows, ReplyFollows
<1> QED BY <1>3, <1>4, <1>5 DEF IInv

(* Where the request goes on, or fails, before an archive is made.         *)
LEMMA GenerateStep ==
  ASSUME IInv, Generate
  PROVE  IInv'
<1>0. /\ TypeOK /\ pc = "columns" /\ i < Len(tables) /\ ~ zip.exists /\ todo = {} /\ reply # "sent"
  BY DEF IInv, Generate, ArchiveFollows, ReplyFollows, InArchive
<1>1. /\ type' = type /\ tables' = tables /\ i' = i /\ dir' = dir /\ zip' = zip /\ todo' = todo
      /\ lost' = lost /\ received' = received
  BY DEF Generate
<1>2. /\ code' \in 0..1
      /\ \/ pc' = "write" /\ reply' = reply
         \/ pc' = "done" /\ reply' = "error"
  BY <1>0 DEF Generate, Fail, TypeOK
<1>3. TypeOK'
  BY <1>0, <1>1, <1>2 DEF TypeOK
<1>4. DirectoryFollows'
  BY <1>0, <1>1, <1>2, FirstKept DEF IInv, DirectoryFollows, InDirectory
<1>5. ArchiveFollows' /\ ReplyFollows'
  BY <1>0, <1>1, <1>2, FirstKept DEF IInv, ArchiveFollows, ReplyFollows
<1> QED BY <1>3, <1>4, <1>5 DEF IInv

(* A class that has no file yet belongs to the first table of that class.  *)
LEMMA WriteFileStep ==
  ASSUME IInv, WriteFile
  PROVE  IInv'
<1> PICK file : file = [table |-> tables[i + 1], lines |-> code]
  OBVIOUS
<1>0. /\ TypeOK /\ pc = "write" /\ i < Len(tables) /\ ~ zip.exists /\ todo = {} /\ reply # "sent"
      /\ FileNames(dir.files) = Done /\ \A f \in dir.files : OfFirst(f)
  BY DEF IInv, WriteFile, DirectoryFollows, ArchiveFollows, ReplyFollows, InArchive
<1>1. /\ type' = type /\ tables' = tables /\ code' = code /\ zip' = zip /\ todo' = todo
      /\ lost' = lost /\ received' = received
  BY DEF WriteFile
<1>2. /\ i \in Nat /\ i + 1 \in 1..Len(tables) /\ Len(tables) \in Nat /\ tables[i + 1] \in Tables
      /\ 1..(i + 1) = (1..i) \cup {i + 1}
  BY <1>0, Places DEF TypeOK
<1>3. CASE pc' = "done" /\ reply' = "empty" /\ dir' = dir /\ i' = i
  <2>1. TypeOK'
    BY <1>0, <1>1, <1>3 DEF TypeOK
  <2>2. DirectoryFollows'
    BY <1>0, <1>1, <1>3, FirstKept DEF IInv, DirectoryFollows
  <2>3. ArchiveFollows' /\ ReplyFollows'
    BY <1>0, <1>1, <1>3, FirstKept DEF IInv, ArchiveFollows, ReplyFollows
  <2> QED BY <2>1, <2>2, <2>3 DEF IInv
<1>4. CASE /\ dir.exists /\ i' = i + 1 /\ pc' = "columns" /\ reply' = reply
           /\ dir' = IF FileName(file) \in FileNames(dir.files) THEN dir
                     ELSE Present(dir.files \cup {file})
  <2>1. file \in File /\ FileName(file) = ClassName(tables[i + 1])
    BY <1>0, <1>2 DEF File, FileName, TypeOK
  <2>2. dir'.files \subseteq File /\ dir' \in [exists : BOOLEAN, files : SUBSET File]
    BY <1>0, <1>4, <2>1 DEF TypeOK, Present
  <2>3. TypeOK'
    <3>1. i' \in 0..Len(tables)
      BY <1>2, <1>4
    <3>2. todo' \subseteq dir'.files
      BY <1>0, <1>1
    <3> QED BY <1>0, <1>1, <1>4, <2>2, <3>1, <3>2 DEF TypeOK
  <2>4. \A f : OfFirst(f) => OfFirst(f)'
    BY <1>1, <1>2, <1>4 DEF OfFirst, First
  <2>5. Done' = Done \cup {FileName(file)}
    BY <1>1, <1>2, <1>4, <2>1 DEF Done
  <2>6. FileNames(dir'.files) = Done' /\ \A f \in dir'.files : OfFirst(f)'
    <3>1. CASE FileName(file) \in Done
      <4>1. dir' = dir
        BY <1>0, <1>4, <3>1
      <4> QED BY <1>0, <2>4, <2>5, <3>1, <4>1
    <3>2. CASE FileName(file) \notin Done
      <4>1. dir'.files = dir.files \cup {file}
        BY <1>0, <1>4, <3>2 DEF Present
      <4>2. FileNames(dir'.files) = Done'
        BY <1>0, <2>5, <4>1 DEF FileNames
      <4>3. First(i + 1)
        BY <1>2, <2>1, <3>2 DEF First, Done
      <4>4. OfFirst(file)'
        BY <1>1, <1>2, <1>4, <4>3 DEF OfFirst, First
      <4> QED BY <1>0, <2>4, <4>1, <4>2, <4>4
    <3> QED BY <3>1, <3>2
  <2>7. DirectoryFollows'
    <3>1. i' \leq Len(tables) /\ Len(tables) > 0
      BY <1>2, <1>4
    <3> QED BY <1>1, <1>4, <2>6, <3>1 DEF DirectoryFollows, InDirectory
  <2>8. ArchiveFollows' /\ ReplyFollows'
    BY <1>0, <1>1, <1>4, <2>4 DEF IInv, ArchiveFollows, ReplyFollows
  <2> QED BY <2>3, <2>7, <2>8 DEF IInv
<1> QED BY <1>3, <1>4 DEF WriteFile, Fail

LEMMA EndLoopStep ==
  ASSUME IInv, EndLoop
  PROVE  IInv'
<1>0. /\ TypeOK /\ pc = "columns" /\ i = Len(tables) /\ ~ zip.exists /\ todo = {} /\ reply # "sent"
  BY DEF IInv, EndLoop, ArchiveFollows, ReplyFollows, InArchive
<1>1. /\ type' = type /\ tables' = tables /\ i' = i /\ code' = code /\ dir' = dir /\ zip' = zip
      /\ todo' = todo /\ lost' = lost /\ reply' = reply /\ received' = received
  BY DEF EndLoop
<1>2. \/ Len(tables) > 0 /\ pc' = "open"
      \/ ~ (Len(tables) > 0) /\ pc' = "send"
  BY DEF EndLoop
<1>3. TypeOK'
  BY <1>0, <1>1, <1>2 DEF TypeOK
<1>4. DirectoryFollows'
  BY <1>0, <1>1, <1>2, FirstKept DEF IInv, DirectoryFollows, InDirectory
<1>5. ArchiveFollows' /\ ReplyFollows'
  BY <1>0, <1>1, <1>2, FirstKept DEF IInv, ArchiveFollows, ReplyFollows
<1> QED BY <1>3, <1>4, <1>5 DEF IInv

-------------------------------------------------------------------------------
(* From here on the loop is over and its directory is complete.            *)

(* What is to be compressed is what is in the directory.                   *)
LEMMA OpenArchiveStep ==
  ASSUME IInv, OpenArchive
  PROVE  IInv'
<1>0. /\ TypeOK /\ pc = "open" /\ i = Len(tables) /\ ~ zip.exists /\ todo = {} /\ reply # "sent"
      /\ FileNames(dir.files) = Done /\ \A f \in dir.files : OfFirst(f)
  BY DEF IInv, OpenArchive, DirectoryFollows, ArchiveFollows, ReplyFollows, InArchive
<1>1. /\ type' = type /\ tables' = tables /\ i' = i /\ code' = code /\ dir' = dir
      /\ reply' = reply /\ received' = received
  BY DEF OpenArchive
<1>2. DirectoryFollows'
  <2>1. pc' \in {"compress", "delete"}
    BY DEF OpenArchive
  <2> QED BY <1>0, <1>1, <2>1, FirstKept DEF IInv, DirectoryFollows, InDirectory
<1>3. ReplyFollows'
  <2>1. pc' \in {"compress", "delete"}
    BY DEF OpenArchive
  <2> QED BY <1>0, <1>1, <2>1 DEF ReplyFollows
<1>4. CASE zip' = Present({}) /\ todo' = dir.files /\ pc' = "compress" /\ lost' = lost
  <2>1. /\ zip' \in [exists : BOOLEAN, files : SUBSET File]
        /\ zip'.files = {} /\ zip'.exists
    BY <1>4, Holds
  <2>2. TypeOK'
    BY <1>0, <1>1, <1>4, <2>1 DEF TypeOK
  <2>3. zip'.files \cup todo' = dir.files
    BY <1>4, <2>1
  <2>4. ArchiveFollows'
    BY <1>0, <1>1, <1>4, <2>1, <2>3, FirstKept DEF ArchiveFollows, FileNames, InArchive
  <2> QED BY <1>2, <1>3, <2>2, <2>4 DEF IInv
<1>5. CASE lost' = TRUE /\ pc' = "delete" /\ zip' = zip /\ todo' = todo
  <2>1. TypeOK'
    BY <1>0, <1>1, <1>5 DEF TypeOK
  <2>2. ArchiveFollows'
    BY <1>0, <1>1, <1>5, FirstKept DEF IInv, ArchiveFollows
  <2> QED BY <1>2, <1>3, <2>1, <2>2 DEF IInv
<1> QED BY <1>4, <1>5 DEF OpenArchive

(* A file leaves the ones to compress for the archive, or an exception is  *)
(* swallowed; at an empty one nothing changes any more.                    *)
LEMMA CompressFileStep ==
  ASSUME IInv, CompressFile
  PROVE  IInv'
<1>0. /\ TypeOK /\ pc = "compress" /\ i = Len(tables) /\ reply # "sent"
      /\ todo \subseteq dir.files /\ dir.files \subseteq File /\ zip.files \subseteq File
      /\ \A f \in zip.files \cup todo : OfFirst(f)
      /\ zip.exists => lost \/ FileNames(zip.files \cup todo) = Done
  BY DEF IInv, TypeOK, CompressFile, DirectoryFollows, ArchiveFollows, ReplyFollows
<1>1. /\ type' = type /\ tables' = tables /\ i' = i /\ code' = code /\ dir' = dir
      /\ reply' = reply /\ received' = received /\ pc' \in {"compress", "spin"}
  BY <1>0 DEF CompressFile
<1>2. DirectoryFollows'
  BY <1>0, <1>1, FirstKept DEF IInv, DirectoryFollows, InDirectory
<1>3. ReplyFollows'
  BY <1>0, <1>1 DEF ReplyFollows
<1>4. PICK file \in todo :
        \/ zip' = Present(zip.files \cup {file}) /\ todo' = todo \ {file} /\ lost' = lost /\ pc' = pc
        \/ zip' = zip /\ todo' = todo /\ lost' = lost
        \/ lost' = TRUE /\ todo' = todo \ {file} /\ zip' = zip
  BY DEF CompressFile
<1>5. CASE zip' = Present(zip.files \cup {file}) /\ todo' = todo \ {file} /\ lost' = lost /\ pc' = pc
  <2>1. zip.files \cup {file} \subseteq File
    BY <1>0, <1>4
  <2>2. /\ zip' \in [exists : BOOLEAN, files : SUBSET File]
        /\ zip'.files = zip.files \cup {file} /\ zip'.exists
    BY <1>5, <2>1, Holds
  <2>3. TypeOK'
    BY <1>0, <1>1, <1>5, <2>2 DEF TypeOK
  <2>4. zip'.files \cup todo' = zip.files \cup todo
    BY <1>4, <1>5, <2>2
  <2>5. zip.exists
    BY <1>0, <1>4 DEF IInv, ArchiveFollows, CompressFile
  <2>6. ArchiveFollows'
    BY <1>0, <1>1, <1>5, <2>2, <2>4, <2>5, FirstKept DEF ArchiveFollows, FileNames, InArchive
  <2> QED BY <1>2, <1>3, <2>3, <2>6 DEF IInv
<1>6. CASE zip' = zip /\ todo' = todo /\ lost' = lost
  <2>1. TypeOK'
    BY <1>0, <1>1, <1>6 DEF TypeOK
  <2>2. ArchiveFollows'
    BY <1>0, <1>1, <1>6, FirstKept DEF IInv, ArchiveFollows, FileNames, InArchive
  <2> QED BY <1>2, <1>3, <2>1, <2>2 DEF IInv
<1>7. CASE lost' = TRUE /\ todo' = todo \ {file} /\ zip' = zip
  <2>1. TypeOK'
    BY <1>0, <1>1, <1>7 DEF TypeOK
  <2>2. ArchiveFollows'
    BY <1>0, <1>1, <1>4, <1>7, FirstKept DEF IInv, ArchiveFollows, InArchive
  <2> QED BY <1>2, <1>3, <2>1, <2>2 DEF IInv
<1> QED BY <1>4, <1>5, <1>6, <1>7

LEMMA CloseArchiveStep ==
  ASSUME IInv, CloseArchive
  PROVE  IInv'
<1>0. /\ TypeOK /\ pc = "compress" /\ i = Len(tables) /\ reply # "sent" /\ todo = {}
  BY DEF IInv, CloseArchive, DirectoryFollows, ReplyFollows
<1>1. /\ type' = type /\ tables' = tables /\ i' = i /\ code' = code /\ dir' = dir /\ zip' = zip
      /\ todo' = todo /\ reply' = reply /\ received' = received /\ pc' = "delete"
      /\ lost' \in {lost, TRUE}
  BY DEF CloseArchive
<1>2. TypeOK'
  BY <1>0, <1>1 DEF TypeOK
<1>3. DirectoryFollows'
  BY <1>0, <1>1, FirstKept DEF IInv, DirectoryFollows, InDirectory
<1>4. ArchiveFollows' /\ ReplyFollows'
  BY <1>0, <1>1, FirstKept DEF IInv, ArchiveFollows, ReplyFollows, FileNames, InArchive
<1> QED BY <1>2, <1>3, <1>4 DEF IInv

LEMMA DeleteDirectoryStep ==
  ASSUME IInv, DeleteDirectory
  PROVE  IInv'
<1>0. /\ TypeOK /\ pc = "delete" /\ i = Len(tables) /\ reply # "sent" /\ todo = {}
  BY DEF IInv, DeleteDirectory, DirectoryFollows, ArchiveFollows, ReplyFollows
<1>1. /\ type' = type /\ tables' = tables /\ i' = i /\ code' = code /\ zip' = zip
      /\ todo' = todo /\ lost' = lost /\ reply' = reply /\ received' = received /\ pc' = "send"
      /\ dir' = Absent
  BY DEF DeleteDirectory
<1>2. TypeOK'
  BY <1>0, <1>1, HoldsNothing DEF TypeOK
<1>3. DirectoryFollows'
  BY <1>0, <1>1, HoldsNothing DEF DirectoryFollows
<1>4. ArchiveFollows' /\ ReplyFollows'
  BY <1>0, <1>1, FirstKept DEF IInv, ArchiveFollows, ReplyFollows, FileNames, InArchive
<1> QED BY <1>2, <1>3, <1>4 DEF IInv

(* What is sent is the archive, all of it, and all of it is compressed.    *)
LEMMA SendStep ==
  ASSUME IInv, Send
  PROVE  IInv'
<1>0. /\ TypeOK /\ pc = "send" /\ i = Len(tables) /\ reply # "sent" /\ todo = {} /\ ~ dir.exists
      /\ zip.files \subseteq File /\ \A f \in zip.files : OfFirst(f)
      /\ zip.exists => lost \/ FileNames(zip.files) = Done
  <2>1. TypeOK /\ pc = "send" /\ todo = {}
    BY DEF IInv, Send, ArchiveFollows
  <2>2. zip.files \cup todo = zip.files
    BY <2>1
  <2> QED BY <2>1, <2>2 DEF IInv, TypeOK, DirectoryFollows, ArchiveFollows, ReplyFollows, InDirectory
<1>1. /\ type' = type /\ tables' = tables /\ i' = i /\ code' = code /\ dir' = dir /\ zip' = zip
      /\ todo' = todo /\ lost' = lost
  BY DEF Send
<1>2. \/ zip.exists /\ reply' = "sent" /\ received' = zip.files /\ pc' = "deleteZip"
      \/ reply' = "empty" /\ pc' = "done" /\ received' = received
  BY DEF Send, Fail
<1>3. TypeOK'
  BY <1>0, <1>1, <1>2 DEF TypeOK
<1>4. DirectoryFollows'
  BY <1>0, <1>1, <1>2, FirstKept DEF IInv, DirectoryFollows
<1>5. ArchiveFollows'
  BY <1>0, <1>1, <1>2, FirstKept DEF IInv, ArchiveFollows, FileNames, InArchive
<1>6. ReplyFollows'
  BY <1>0, <1>1, <1>2, FirstKept DEF ReplyFollows, FileNames
<1> QED BY <1>3, <1>4, <1>5, <1>6 DEF IInv

LEMMA DeleteArchiveStep ==
  ASSUME IInv, DeleteArchive
  PROVE  IInv'
<1>0. /\ TypeOK /\ pc = "deleteZip" /\ i = Len(tables) /\ reply = "sent" /\ todo = {} /\ ~ dir.exists
  BY DEF IInv, DeleteArchive, DirectoryFollows, ArchiveFollows, ReplyFollows
<1>1. /\ type' = type /\ tables' = tables /\ i' = i /\ code' = code /\ dir' = dir /\ zip' = Absent
      /\ todo' = todo /\ lost' = lost /\ reply' = reply /\ received' = received /\ pc' = "done"
  BY DEF DeleteArchive
<1>2. TypeOK'
  BY <1>0, <1>1, HoldsNothing DEF TypeOK
<1>3. DirectoryFollows'
  BY <1>0, <1>1, FirstKept DEF IInv, DirectoryFollows
<1>4. ArchiveFollows'
  BY <1>0, <1>1, HoldsNothing DEF ArchiveFollows
<1>5. ReplyFollows'
  BY <1>0, <1>1, HoldsNothing, FirstKept DEF IInv, ReplyFollows, FileNames
<1> QED BY <1>2, <1>3, <1>4, <1>5 DEF IInv

LEMMA NextIInv == IInv /\ [Next]_vars => IInv'
<1> SUFFICES ASSUME IInv, [Next]_vars PROVE IInv'
  OBVIOUS
<1>1. CASE UNCHANGED vars
  BY <1>1, FirstKept DEF vars, IInv, TypeOK, DirectoryFollows, ArchiveFollows, ReplyFollows, FileNames
<1> QED BY <1>1, ListStep, MakeDirectoryStep, GenerateStep, WriteFileStep, EndLoopStep,
           OpenArchiveStep, CompressFileStep, CloseArchiveStep, DeleteDirectoryStep,
           SendStep, DeleteArchiveStep DEF Next

-------------------------------------------------------------------------------
(* Two tables that are the first of a class are one.                       *)
LEMMA FirstIsFirstOf ==
  ASSUME TypeOK, NEW file, OfFirst(file)
  PROVE  file.table = FirstOf(FileName(file))
<1>1. PICK k \in 1..i : file.table = tables[k] /\ First(k)
  BY DEF OfFirst
<1> DEFINE FirstAt(x) == /\ ClassName(tables[x]) = FileName(file)
                         /\ \A j \in 1..(x - 1) : ClassName(tables[j]) # FileName(file)
<1>2. k \in DOMAIN tables /\ FirstAt(k)
  BY <1>1, Places DEF First, FileName, TypeOK
<1>3. \A x \in DOMAIN tables : FirstAt(x) => x = k
  <2> SUFFICES ASSUME NEW x \in DOMAIN tables, FirstAt(x), x # k PROVE FALSE
    OBVIOUS
  <2>1. x \in Int /\ k \in Int /\ x \geq 1 /\ k \geq 1
    BY <1>2, Places
  <2>2. x \in 1..(k - 1) \/ k \in 1..(x - 1)
    BY <2>1
  <2> QED BY <1>2, <2>2
<1>4. (CHOOSE x \in DOMAIN tables : FirstAt(x)) = k
  <2> HIDE DEF FirstAt
  <2> QED BY <1>2, <1>3
<1> QED BY <1>1, <1>4 DEF FirstOf

(* At the end of the loop every class is done.                             *)
LEMMA ReadOff == IInv => FilesAccounted
<1> SUFFICES ASSUME IInv PROVE FilesAccounted
  OBVIOUS
<1>1. TypeOK
  BY DEF IInv
<1>2. ASSUME reply = "sent"
      PROVE  /\ \A file \in received : file.table = FirstOf(FileName(file))
             /\ lost \/ FileNames(received) = Classes
  <2>1. Done = Classes
    BY <1>1, <1>2, Places DEF IInv, ReplyFollows, Done, Classes
  <2> QED BY <1>1, <1>2, <2>1, FirstIsFirstOf DEF IInv, ReplyFollows
<1>3. LeftBehind
  BY <1>1, Places DEF IInv, LeftBehind, DirectoryFollows, ArchiveFollows, ReplyFollows,
     InDirectory, InArchive, TypeOK
<1> QED BY <1>1, <1>2, <1>3 DEF FilesAccounted, ArchiveComplete

(* What an export sends has every class, of the first table of its name,   *)
(* and what it leaves on the disk is one thing, known by where it failed:  *)
(* for any names, any number of tables, any order of failures.             *)
THEOREM FilesAreAccounted == Spec => []FilesAccounted
<1>1. Spec => []IInv
  BY InitIInv, NextIInv, PTL DEF Spec
<1> QED BY <1>1, ReadOff, PTL

-------------------------------------------------------------------------------
(* The parse of a statement, by induction on the characters parsed; w is   *)
(* where.  First induction itself, as facts about sets.                    *)

LEMMA LeastNat ==
  ASSUME NEW T, T \subseteq Nat, T # {}
  PROVE  \E x \in T : \A y \in T : x <= y
<1> DEFINE R == {ss \in Nat \X Nat : ss[1] < ss[2]}
<1>1. IsWellFoundedOn(R, Nat)
  BY NatLessThanWellFounded DEF OpToRel
<1> HIDE DEF R
<1>2. PICK x \in T : \A y \in T : ~ (<<y, x>> \in R)
  BY <1>1, WFMin
<1>3. \A y \in T : ~ (y < x)
  BY <1>2 DEF R
<1> QED BY <1>3

LEMMA SetInduction ==
  ASSUME NEW S, 0 \in S, \A n \in Nat : n \in S => n + 1 \in S
  PROVE  Nat \subseteq S
<1> SUFFICES ASSUME Nat \ S # {} PROVE FALSE
  OBVIOUS
<1>1. PICK x \in Nat \ S : \A y \in Nat \ S : x <= y
  BY LeastNat
<1>2. x # 0 /\ x - 1 \in Nat
  BY <1>1
<1>3. x - 1 \in S
  BY <1>1, <1>2
<1> QED BY <1>1, <1>2, <1>3

(* A function on 0..n that is defined by recursion, from values in S.      *)
LEMMA Recursion ==
  ASSUME NEW S, NEW c \in S, NEW n \in Nat, NEW F \in [1..n -> [S -> S]]
  PROVE  \E g \in [0..n -> S] : g[0] = c /\ \A w \in 1..n : g[w] = F[w][g[w - 1]]
<1> DEFINE Is(m, g) == g[0] = c /\ \A w \in 1..m : g[w] = F[w][g[w - 1]]
           A == {m \in Nat : m <= n => \E g \in [0..m -> S] : Is(m, g)}
<1>1. 0 \in A
  <2>1. [w \in 0..0 |-> c] \in [0..0 -> S] /\ Is(0, [w \in 0..0 |-> c])
    OBVIOUS
  <2> QED BY <2>1
<1>2. ASSUME NEW m \in Nat, m \in A PROVE m + 1 \in A
  <2> SUFFICES ASSUME m + 1 <= n PROVE \E h \in [0..m + 1 -> S] : Is(m + 1, h)
    OBVIOUS
  <2>1. PICK g \in [0..m -> S] : Is(m, g)
    BY <1>2
  <2> DEFINE h == [w \in 0..m + 1 |-> IF w <= m THEN g[w] ELSE F[m + 1][g[m]]]
  <2>2. F[m + 1][g[m]] \in S
    <3>1. g[m] \in S /\ m + 1 \in 1..n
      BY <2>1
    <3> QED BY <3>1
  <2>3. h \in [0..m + 1 -> S] /\ h[0] = c
    BY <2>1, <2>2
  <2>4. ASSUME NEW w \in 1..m + 1
        PROVE  h[w] = F[w][h[w - 1]]
    <3>1. CASE w <= m
      <4>1. h[w] = g[w] /\ h[w - 1] = g[w - 1]
        BY <3>1
      <4> QED BY <2>1, <3>1, <4>1
    <3>2. CASE w = m + 1
      <4>1. h[w] = F[m + 1][g[m]] /\ h[w - 1] = g[m]
        BY <3>2
      <4> QED BY <3>2, <4>1
    <3> QED BY <3>1, <3>2
  <2> HIDE DEF h
  <2> QED BY <2>3, <2>4
<1> HIDE DEF A
<1>3. n \in A
  BY <1>1, <1>2, SetInduction
<1> QED BY <1>3 DEF A

-------------------------------------------------------------------------------
(* The recursive definitions of the model do define what they say.         *)

OpenQuotes == Quotes \cup {NoQuote}

(* The quote that is open behind character c, if the one before it was.    *)
After(quote, c) ==
  IF quote = NoQuote THEN IF c \in Quotes THEN c ELSE NoQuote
  ELSE IF c = quote THEN NoQuote ELSE quote

LEMMA OpenIs ==
  ASSUME query \in Seq(Characters)
  PROVE  /\ Open[0] = NoQuote
         /\ \A w \in 1..Len(query) : Open[w] = After(Open[w - 1], query[w])
         /\ \A w \in 0..Len(query) : Open[w] \in OpenQuotes
<1> DEFINE n == Len(query)
           F == [w \in 1..n |-> [q \in OpenQuotes |-> After(q, query[w])]]
           Def(g) == [w \in 0..n |-> IF w = 0 THEN NoQuote ELSE After(g[w - 1], query[w])]
<1>1. n \in Nat /\ NoQuote \in OpenQuotes
  BY DEF OpenQuotes
<1>2. F \in [1..n -> [OpenQuotes -> OpenQuotes]]
  BY DEF After, OpenQuotes
<1>3. PICK g \in [0..n -> OpenQuotes] : g[0] = NoQuote /\ \A w \in 1..n : g[w] = F[w][g[w - 1]]
  <2> HIDE DEF n, F
  <2> QED BY <1>1, <1>2, Recursion
<1>4. g = Def(g)
  <2>1. \A w \in 1..n : F[w][g[w - 1]] = After(g[w - 1], query[w])
    BY <1>1
  <2> HIDE DEF F
  <2>2. ASSUME NEW w \in 0..n
        PROVE  g[w] = IF w = 0 THEN NoQuote ELSE After(g[w - 1], query[w])
    <3>1. CASE w = 0
      BY <1>3, <3>1
    <3>2. CASE w \in 1..n
      BY <1>3, <2>1, <3>2
    <3> QED BY <1>1, <3>1, <3>2
  <2> QED BY <2>2
<1>5. Open = Def(Open)
  BY <1>4 DEF Open, After
<1>6. Open[0] = NoQuote /\ \A w \in 1..n : Open[w] = After(Open[w - 1], query[w])
  <2>1. \A w \in 0..n : Open[w] = IF w = 0 THEN NoQuote ELSE After(Open[w - 1], query[w])
    BY <1>5
  <2> QED BY <1>1, <2>1
<1>7. \A w \in 0..n : Open[w] \in OpenQuotes
  <2> DEFINE A == {w \in Nat : w <= n => Open[w] \in OpenQuotes}
  <2>1. 0 \in A
    BY <1>1, <1>6
  <2>2. ASSUME NEW w \in Nat, w \in A PROVE w + 1 \in A
    <3>1. w + 1 <= n => Open[w + 1] = After(Open[w], query[w + 1])
      BY <1>6
    <3> QED BY <1>1, <2>2, <3>1 DEF After, OpenQuotes
  <2> HIDE DEF A
  <2>3. Nat \subseteq A
    BY <2>1, <2>2, SetInduction
  <2> QED BY <2>3 DEF A
<1> QED BY <1>6, <1>7

(* The parse of a query, of which no more is known yet.                    *)
LEMMA ParsedIs ==
  ASSUME query \in Seq(Characters)
  PROVE  /\ parsed(query)[0] = NothingParsed
         /\ \A w \in 1..Len(query) : parsed(query)[w] = parseAt(query, parsed(query)[w - 1], w)
<1> DEFINE n == Len(query)
           Is(m, g) == /\ DOMAIN g = 0..m /\ g[0] = NothingParsed
                       /\ \A w \in 1..m : g[w] = parseAt(query, g[w - 1], w)
           A == {m \in Nat : \E g : Is(m, g)}
           Def(g) == [w \in 0..n |-> IF w = 0 THEN NothingParsed ELSE parseAt(query, g[w - 1], w)]
<1>0. n \in Nat
  OBVIOUS
<1>1. 0 \in A
  <2>1. Is(0, [w \in 0..0 |-> NothingParsed])
    OBVIOUS
  <2> QED BY <2>1
<1>2. ASSUME NEW m \in Nat, m \in A PROVE m + 1 \in A
  <2>1. PICK g : Is(m, g)
    BY <1>2
  <2> DEFINE h == [w \in 0..m + 1 |-> IF w <= m THEN g[w] ELSE parseAt(query, g[m], m + 1)]
  <2>2. DOMAIN h = 0..m + 1 /\ h[0] = NothingParsed
    BY <2>1
  <2>3. ASSUME NEW w \in 1..m + 1
        PROVE  h[w] = parseAt(query, h[w - 1], w)
    <3>1. CASE w <= m
      <4>1. h[w] = g[w] /\ h[w - 1] = g[w - 1]
        BY <3>1
      <4> QED BY <2>1, <3>1, <4>1
    <3>2. CASE w = m + 1
      <4>1. h[w] = parseAt(query, g[m], m + 1) /\ h[w - 1] = g[m]
        BY <3>2
      <4> QED BY <3>2, <4>1
    <3> QED BY <3>1, <3>2
  <2> HIDE DEF h
  <2> QED BY <2>2, <2>3
<1>3. PICK g : Is(n, g)
  <2> HIDE DEF A
  <2>1. n \in A
    BY <1>0, <1>1, <1>2, SetInduction
  <2> QED BY <2>1 DEF A
<1>4. \E s : s = Def(s)
  <2> DEFINE s == [w \in 0..n |-> g[w]]
  <2>1. ASSUME NEW w \in 0..n
        PROVE  s[w] = IF w = 0 THEN NothingParsed ELSE parseAt(query, s[w - 1], w)
    <3>1. CASE w = 0
      BY <1>3, <3>1
    <3>2. CASE w \in 1..n
      <4>1. s[w] = g[w] /\ s[w - 1] = g[w - 1]
        BY <3>2
      <4> QED BY <1>3, <3>2, <4>1
    <3> QED BY <1>0, <3>1, <3>2
  <2>2. s = Def(s)
    BY <2>1
  <2> QED BY <2>2
<1>5. parsed(query) = Def(parsed(query))
  BY <1>4 DEF parsed
<1>6. \A w \in 0..n : parsed(query)[w] = IF w = 0 THEN NothingParsed ELSE parseAt(query, parsed(query)[w - 1], w)
  BY <1>5
<1> QED BY <1>0, <1>6

(* A name ends where its characters do.                                    *)
LEMMA NameIs ==
  ASSUME query \in Seq(Characters), NEW o \in 1..Len(query), begins(query, o)
  PROVE  \E e \in o + 1..Len(query) :
           /\ name(query, o) = SubSeq(query, o + 1, e)
           /\ \A k \in o + 1..e : query[k] \in Letters \cup Digits
<1> DEFINE n == Len(query)
           Ends(j) == j = n \/ query[j + 1] \notin Letters \cup Digits
           T == {j \in o + 1..n : Ends(j)}
<1>0. n \in Nat /\ o + 1 \in 1..n /\ query[o + 1] \in Letters
  BY DEF begins
<1>1. PICK e \in T : \A j \in T : e <= j
  <2>1. n \in T /\ T \subseteq Nat
    BY <1>0
  <2> HIDE DEF T
  <2> QED BY <2>1, LeastNat
<1>2. ASSUME NEW k \in o + 1..e PROVE query[k] \in Letters \cup Digits
  <2>1. CASE k = o + 1
    BY <1>0, <2>1
  <2>2. CASE k # o + 1
    <3>1. k - 1 \in o + 1..n /\ k - 1 < e
      BY <1>0, <1>1, <2>2
    <3>2. ~ Ends(k - 1)
      <4>1. SUFFICES ASSUME Ends(k - 1) PROVE FALSE
        OBVIOUS
      <4>2. k - 1 \in T /\ e \in o + 1..n
        BY <1>1, <3>1, <4>1
      <4>3. e <= k - 1
        <5> HIDE DEF T
        <5> QED BY <1>1, <4>2
      <4> QED BY <1>0, <3>1, <4>2, <4>3
    <3> QED BY <1>0, <3>2
  <2> QED BY <2>1, <2>2
<1> DEFINE P(j) == (\A k \in o + 1..j : query[k] \in Letters \cup Digits) /\ Ends(j)
           end == CHOOSE j \in o + 1..n : P(j)
<1>3. end \in o + 1..n /\ P(end)
  <2>1. e \in o + 1..n /\ P(e)
    BY <1>1, <1>2
  <2> HIDE DEF P
  <2> QED BY <2>1
<1>4. name(query, o) = SubSeq(query, o + 1, end)
  BY DEF name
<1> QED BY <1>3, <1>4

(* Sequences one behind the other, prefix by prefix.                       *)
LEMMA FlattenIs ==
  ASSUME NEW S, NEW s \in Seq(Seq(S))
  PROVE  \E f \in [0..Len(s) -> Seq(S)] :
           /\ f[0] = <<>> /\ FlattenSeq(s) = f[Len(s)]
           /\ \A w \in 1..Len(s) : f[w] = f[w - 1] \o s[w]
<1> DEFINE n == Len(s)
           F == [w \in 1..n |-> [q \in Seq(S) |-> q \o s[w]]]
           Def(g) == [w \in 1..n |-> IF w = 1 THEN s[w] ELSE g[w - 1] \o s[w]]
           flatten == CHOOSE g : g = Def(g)
<1>0. n \in Nat /\ <<>> \in Seq(S) /\ \A w \in 1..n : s[w] \in Seq(S)
  OBVIOUS
<1>1. F \in [1..n -> [Seq(S) -> Seq(S)]]
  BY <1>0
<1>2. PICK f \in [0..n -> Seq(S)] : f[0] = <<>> /\ \A w \in 1..n : f[w] = F[w][f[w - 1]]
  <2> DEFINE E == <<>>
             Q == Seq(S)
  <2>1. E \in Q
    BY <1>0
  <2>2. n \in Nat
    BY <1>0
  <2>3. F \in [1..n -> [Q -> Q]]
    BY <1>1
  <2> HIDE DEF n, F, E, Q
  <2>4. \E f \in [0..n -> Q] : f[0] = E /\ \A w \in 1..n : f[w] = F[w][f[w - 1]]
    BY <2>1, <2>2, <2>3, Recursion, SMTT(60)
  <2> QED BY <2>4 DEF E, Q
<1>3. \A w \in 1..n : f[w] = f[w - 1] \o s[w]
  <2>1. \A w \in 1..n : w - 1 \in 0..n /\ f[w - 1] \in Seq(S)
    <3> DEFINE Q == Seq(S)
    <3>1. f \in [0..n -> Q] /\ n \in Nat
      BY <1>0, <1>2
    <3> HIDE DEF n, F, Q
    <3>2. \A w \in 1..n : w - 1 \in 0..n /\ f[w - 1] \in Q
      BY <3>1
    <3> QED BY <3>2 DEF Q
  <2>2. \A w \in 1..n : F[w][f[w - 1]] = f[w - 1] \o s[w]
    BY <2>1
  <2> HIDE DEF F
  <2> QED BY <1>2, <2>2
<1> HIDE DEF F
<1>a. n >= 1 => s[1] \in Seq(S) /\ f[1] = s[1]
  <2> SUFFICES ASSUME n >= 1 PROVE s[1] \in Seq(S) /\ f[1] = s[1]
    OBVIOUS
  <2>1. s[1] \in Seq(S)
    BY <1>0
  <2>2. f[1] = f[0] \o s[1]
    <3>1. 1 \in 1..n /\ 1 - 1 = 0
      BY <1>0
    <3> HIDE DEF n
    <3>2. f[1] = f[1 - 1] \o s[1]
      BY <1>3, <3>1
    <3> QED BY <3>1, <3>2
  <2>3. f[1] = <<>> \o s[1]
    BY <1>2, <2>2, Zenon
  <2>4. <<>> \o s[1] = s[1]
    BY <2>1
  <2> QED BY <2>1, <2>3, <2>4
<1>4. \E g : g = Def(g)
  <2> DEFINE g == [w \in 1..n |-> f[w]]
  <2>1. ASSUME NEW w \in 1..n
        PROVE  g[w] = IF w = 1 THEN s[w] ELSE g[w - 1] \o s[w]
    <3>1. CASE w = 1
      <4>1. g[1] = f[1] /\ n >= 1
        BY <1>0, <3>1
      <4> QED BY <1>a, <3>1, <4>1
    <3>2. CASE w # 1
      <4>1. g[w] = f[w] /\ g[w - 1] = f[w - 1]
        BY <1>0, <3>2
      <4> QED BY <1>3, <3>2, <4>1
    <3> QED BY <3>1, <3>2
  <2>2. g = Def(g)
    BY <2>1
  <2> QED BY <2>2
<1>5. flatten = Def(flatten)
  <2> HIDE DEF Def
  <2> QED BY <1>4
<1>6. \A w \in 1..n : flatten[w] = IF w = 1 THEN s[w] ELSE flatten[w - 1] \o s[w]
  <2> HIDE DEF flatten
  <2> QED BY <1>5
<1>7. \A w \in 1..n : flatten[w] = f[w]
  <2> DEFINE A == {w \in Nat : w \in 1..n => flatten[w] = f[w]}
  <2> HIDE DEF flatten
  <2>1. 0 \in A
    OBVIOUS
  <2>2. ASSUME NEW w \in Nat, w \in A PROVE w + 1 \in A
    <3> SUFFICES ASSUME w + 1 \in 1..n PROVE flatten[w + 1] = f[w + 1]
      OBVIOUS
    <3> DEFINE k == w + 1
    <3>0. k \in 1..n /\ k - 1 = w /\ n \in Nat
      BY <1>0
    <3> HIDE DEF n, k
    <3>1. CASE k = 1
      <4>1. flatten[k] = s[1] /\ n >= 1
        BY <1>6, <3>0, <3>1
      <4> QED BY <1>a, <3>1, <4>1 DEF k
    <3>2. CASE k # 1
      <4>1. flatten[k] = flatten[w] \o s[k] /\ f[k] = f[w] \o s[k]
        BY <1>3, <1>6, <3>0, <3>2
      <4>2. w \in 1..n
        BY <3>0, <3>2
      <4>3. flatten[w] = f[w]
        BY <2>2, <4>2 DEF n
      <4>4. flatten[k] = f[k]
        BY <4>1, <4>3, Zenon
      <4> QED BY <4>4 DEF k
    <3> QED BY <3>1, <3>2
  <2> HIDE DEF A
  <2>3. Nat \subseteq A
    BY <2>1, <2>2, SetInduction
  <2> QED BY <2>3 DEF A
<1>8. FlattenSeq(s) = f[n]
  <2>1. CASE n = 0
    <3>1. s = <<>>
      BY <2>1
    <3> QED BY <1>2, <2>1, <3>1 DEF FlattenSeq
  <2>2. CASE n # 0
    <3>1. FlattenSeq(s) = flatten[n]
      <4>1. s # <<>>
        BY <2>2
      <4> QED BY <4>1 DEF FlattenSeq
    <3> HIDE DEF flatten
    <3> QED BY <1>0, <1>7, <2>2, <3>1
  <2> QED BY <2>1, <2>2
<1> QED BY <1>2, <1>3, <1>8

-------------------------------------------------------------------------------
(* Names, and what is between them.                                        *)

End(o) == o + Len(name(query, o))

LEMMA NameSpan ==
  ASSUME query \in Seq(Characters), NEW o \in 1..Len(query), begins(query, o)
  PROVE  /\ End(o) \in o + 1..Len(query) /\ Len(name(query, o)) \in Nat
         /\ \A k \in o + 1..End(o) : query[k] \notin Marks \cup Quotes
<1>1. PICK e \in o + 1..Len(query) :
        /\ name(query, o) = SubSeq(query, o + 1, e)
        /\ \A k \in o + 1..e : query[k] \in Letters \cup Digits
  BY NameIs
<1>2. Len(name(query, o)) = e - o
  BY <1>1
<1>3. End(o) = e
  BY <1>1, <1>2 DEF End
<1>4. Len(name(query, o)) \in Nat
  BY <1>1, <1>2
<1>5. ASSUME NEW k \in o + 1..e PROVE query[k] \notin Marks \cup Quotes
  <2>1. query[k] \in Letters \cup Digits
    BY <1>1
  <2> QED BY <2>1, NamedParameterAssumption
<1> QED BY <1>3, <1>4, <1>5

(* Inside of a name nothing is quoted, and no other begins.                *)
LEMMA NameIsPlain ==
  ASSUME query \in Seq(Characters), NEW o \in Occurrences
  PROVE  /\ \A k \in o..End(o) : Open[k] = NoQuote
         /\ \A k \in o + 1..End(o) : k \notin Occurrences
<1>1. o \in 1..Len(query) /\ Open[o - 1] = NoQuote /\ begins(query, o) /\ Len(query) \in Nat
  BY DEF Occurrences
<1>2. End(o) \in o + 1..Len(query) /\ \A k \in o + 1..End(o) : query[k] \notin Marks \cup Quotes
  BY <1>1, NameSpan
<1> DEFINE A == {m \in Nat : o + m <= End(o) => Open[o + m] = NoQuote}
<1>3. 0 \in A
  <2>1. query[o] \notin Quotes
    BY <1>1 DEF begins, Marks, Quotes
  <2> QED BY <1>1, <2>1, OpenIs DEF After
<1>4. ASSUME NEW m \in Nat, m \in A PROVE m + 1 \in A
  <2> SUFFICES ASSUME o + (m + 1) <= End(o) PROVE Open[o + (m + 1)] = NoQuote
    OBVIOUS
  <2>1. o + (m + 1) \in o + 1..End(o) /\ o + (m + 1) \in 1..Len(query) /\ o + (m + 1) - 1 = o + m
    BY <1>1, <1>2
  <2>2. Open[o + m] = NoQuote
    BY <1>1, <1>2, <1>4
  <2>3. query[o + (m + 1)] \notin Quotes
    BY <1>2, <2>1
  <2>4. Open[o + (m + 1)] = After(Open[o + m], query[o + (m + 1)])
    <3>1. \A w \in 1..Len(query) : Open[w] = After(Open[w - 1], query[w])
      BY OpenIs, Zenon
    <3> DEFINE k == o + (m + 1)
               n == Len(query)
    <3>2. k \in 1..n /\ k - 1 = o + m
      BY <1>1, <2>1
    <3>3. \A w \in 1..n : Open[w] = After(Open[w - 1], query[w])
      BY <3>1, Zenon
    <3> HIDE DEF k, n
    <3>4. Open[k] = After(Open[o + m], query[k])
      BY <3>2, <3>3
    <3> QED BY <3>4 DEF k
  <2> QED BY <2>2, <2>3, <2>4 DEF After
<1>5. Nat \subseteq A
  <2> HIDE DEF A
  <2> QED BY <1>3, <1>4, SetInduction
<1>6. ASSUME NEW k \in o..End(o) PROVE Open[k] = NoQuote
  <2>1. k - o \in Nat /\ o + (k - o) = k /\ k <= End(o)
    BY <1>1, <1>2
  <2>2. k - o \in A
    BY <1>5, <2>1
  <2> QED BY <2>1, <2>2
<1>7. \A k \in o + 1..End(o) : k \notin Occurrences
  BY <1>2 DEF Occurrences, begins
<1> QED BY <1>6, <1>7

-------------------------------------------------------------------------------
(* What each character does to the parse.                                  *)

(* The occurrences up to a character.                                      *)
Occ(w) == {j \in Occurrences : j <= w}

LEMMA OccurrencesAre ==
  ASSUME query \in Seq(Characters)
  PROVE  /\ Occurrences \subseteq 1..Len(query) /\ Len(query) \in Nat
         /\ Occ(0) = {} /\ Occ(Len(query)) = Occurrences
         /\ \A w \in Nat : /\ IsFiniteSet(Occ(w)) /\ Cardinality(Occ(w)) \in Nat
                           /\ w + 1 \notin Occ(w)
                           /\ w + 1 \in Occurrences => Occ(w + 1) = Occ(w) \cup {w + 1}
                           /\ w + 1 \notin Occurrences => Occ(w + 1) = Occ(w)
<1>1. Occurrences \subseteq 1..Len(query) /\ Len(query) \in Nat
  BY DEF Occurrences
<1>2. Occ(0) = {} /\ Occ(Len(query)) = Occurrences
  <2>1. \A j \in Occurrences : ~(j <= 0) /\ j <= Len(query)
    BY <1>1
  <2> QED BY <2>1 DEF Occ
<1>3. ASSUME NEW w \in Nat
      PROVE  /\ IsFiniteSet(Occ(w)) /\ Cardinality(Occ(w)) \in Nat
             /\ w + 1 \notin Occ(w)
             /\ w + 1 \in Occurrences => Occ(w + 1) = Occ(w) \cup {w + 1}
             /\ w + 1 \notin Occurrences => Occ(w + 1) = Occ(w)
  <2>1. Occ(w) \subseteq 1..Len(query)
    BY <1>1 DEF Occ
  <2>2. IsFiniteSet(1..Len(query))
    BY <1>1, FS_Interval
  <2>3. IsFiniteSet(Occ(w))
    BY <2>1, <2>2, FS_Subset
  <2>4. Cardinality(Occ(w)) \in Nat
    BY <2>3, FS_CardinalityType
  <2>5. w + 1 \notin Occ(w)
    BY DEF Occ
  <2>6. \A j \in Occurrences : j <= w + 1 <=> j <= w \/ j = w + 1
    BY <1>1
  <2>7. Occ(w + 1) = Occ(w) \cup {j \in Occurrences : j = w + 1}
    BY <2>6 DEF Occ
  <2>8. w + 1 \in Occurrences => Occ(w + 1) = Occ(w) \cup {w + 1}
    BY <2>7
  <2>9. w + 1 \notin Occurrences => Occ(w + 1) = Occ(w)
    BY <2>7
  <2> QED BY <2>3, <2>4, <2>5, <2>8, <2>9
<1> QED BY <1>1, <1>2, <1>3

(* The indexes of occurrences are 1, 2 and so on, each its own.            *)
LEMMA IndexesDiffer ==
  ASSUME query \in Seq(Characters)
  PROVE  /\ \A o \in Occurrences : IndexOf(o) \in 1..Cardinality(Occurrences)
         /\ \A o, p \in Occurrences : IndexOf(o) = IndexOf(p) => o = p
<1>1. Occurrences \subseteq Nat /\ Occ(Len(query)) = Occurrences /\ Len(query) \in Nat
  BY OccurrencesAre
<1>2. \A w \in Nat : IsFiniteSet(Occ(w)) /\ Cardinality(Occ(w)) \in Nat /\ IndexOf(w) = Cardinality(Occ(w))
  BY OccurrencesAre DEF IndexOf, Occ
<1>3. IsFiniteSet(Occurrences) /\ Cardinality(Occurrences) \in Nat
  BY <1>1, <1>2
<1>4. ASSUME NEW o \in Occurrences PROVE IndexOf(o) \in 1..Cardinality(Occurrences)
  <2>1. Occ(o) \subseteq Occurrences /\ o \in Occ(o) /\ o \in Nat
    BY <1>1 DEF Occ
  <2>2. Cardinality(Occ(o)) <= Cardinality(Occurrences)
    BY <1>3, <2>1, FS_Subset
  <2>3. Cardinality(Occ(o)) # 0
    BY <1>2, <2>1, FS_EmptySet
  <2> QED BY <1>2, <1>3, <2>1, <2>2, <2>3
<1>5. ASSUME NEW o \in Occurrences, NEW p \in Occurrences, o < p
      PROVE  IndexOf(o) # IndexOf(p)
  <2>1. Occ(o) \subseteq Occ(p) /\ p \in Occ(p) /\ p \notin Occ(o) /\ o \in Nat /\ p \in Nat
    <3>1. o \in Nat /\ p \in Nat /\ ~(p <= o)
      BY <1>1, <1>5
    <3>2. \A j \in Occurrences : j <= o => j <= p
      BY <1>1, <1>5, <3>1
    <3>3. Occ(o) \subseteq Occ(p)
      BY <3>2 DEF Occ
    <3>4. p \in Occ(p) /\ p \notin Occ(o)
      <4>1. p <= p
        BY <3>1
      <4> QED BY <3>1, <4>1 DEF Occ
    <3> QED BY <3>1, <3>3, <3>4
  <2>2. Occ(o) # Occ(p)
    BY <2>1
  <2>3. Cardinality(Occ(o)) # Cardinality(Occ(p))
    <3>1. IsFiniteSet(Occ(p))
      BY <1>2, <2>1
    <3> QED BY <2>1, <2>2, <3>1, FS_Subset
  <2> QED BY <1>2, <2>1, <2>3
<1>6. \A o, p \in Occurrences : IndexOf(o) = IndexOf(p) => o = p
  <2>1. \A o, p \in Occurrences : o < p \/ p < o \/ o = p
    BY <1>1
  <2> QED BY <1>5, <2>1
<1> QED BY <1>4, <1>6

IsParse(s) == s = [text |-> s.text, map |-> s.map, index |-> s.index, quote |-> s.quote, next |-> s.next]

Skips(s, w) == w < s.next
Replaces(s, w) == s.quote = NoQuote /\ begins(query, w)

LEMMA ParseAtIs ==
  ASSUME NEW s, IsParse(s), s.quote \in OpenQuotes, NEW w, NEW t, t = parseAt(query, s, w)
  PROVE  /\ IsParse(t)
         /\ Skips(s, w) => t = s
         /\ ~Skips(s, w) => t.quote = After(s.quote, query[w])
         /\ ~Skips(s, w) /\ Replaces(s, w) =>
              /\ t.text = Append(s.text, "?") /\ t.map = Indexed(s.map, name(query, w), s.index)
              /\ t.index = s.index + 1 /\ t.next = w + Len(name(query, w)) + 1
         /\ ~Skips(s, w) /\ ~Replaces(s, w) =>
              /\ t.text = Append(s.text, query[w]) /\ t.map = s.map
              /\ t.index = s.index /\ t.next = s.next
<1>1. CASE Skips(s, w)
  BY <1>1 DEF parseAt, Skips
<1>2. CASE ~Skips(s, w) /\ Replaces(s, w)
  <2>1. query[w] \notin Quotes /\ s.quote = NoQuote /\ begins(query, w) /\ ~(w < s.next)
    BY <1>2 DEF begins, Marks, Quotes, Skips, Replaces
  <2>2. t = [text |-> Append(s.text, "?"), map |-> Indexed(s.map, name(query, w), s.index),
             index |-> s.index + 1, quote |-> s.quote, next |-> w + Len(name(query, w)) + 1]
    BY <2>1 DEF parseAt, IsParse
  <2>3. t.quote = After(s.quote, query[w])
    BY <2>1, <2>2 DEF After
  <2> QED BY <1>2, <2>2, <2>3 DEF IsParse
<1>3. CASE ~Skips(s, w) /\ ~Replaces(s, w)
  <2>1. t = [text |-> Append(s.text, query[w]), map |-> s.map, index |-> s.index,
             quote |-> After(s.quote, query[w]), next |-> s.next]
    <3>1. CASE s.quote # NoQuote
      BY <1>3, <3>1 DEF parseAt, IsParse, Skips, After
    <3>2. CASE s.quote = NoQuote /\ query[w] \in Quotes
      BY <1>3, <3>2 DEF parseAt, IsParse, Skips, After
    <3>3. CASE s.quote = NoQuote /\ query[w] \notin Quotes
      BY <1>3, <3>3 DEF parseAt, IsParse, Skips, Replaces, After
    <3> QED BY <3>1, <3>2, <3>3
  <2> QED BY <1>3, <2>1 DEF IsParse
<1> QED BY <1>1, <1>2, <1>3

LEMMA ConcatRange ==
  ASSUME NEW S, NEW u \in Seq(S), NEW v \in Seq(S)
  PROVE  \A x : x \in Range(u \o v) <=> x \in Range(u) \/ x \in Range(v)
<1>1. Len(u) \in Nat /\ Len(v) \in Nat /\ DOMAIN u = 1..Len(u) /\ DOMAIN v = 1..Len(v)
  OBVIOUS
<1>2. /\ DOMAIN (u \o v) = 1..Len(u) + Len(v)
      /\ \A w \in 1..Len(u) : (u \o v)[w] = u[w]
      /\ \A w \in 1..Len(v) : (u \o v)[Len(u) + w] = v[w]
  OBVIOUS
<1>3. ASSUME NEW x, x \in Range(u \o v) PROVE x \in Range(u) \/ x \in Range(v)
  <2>1. PICK w \in 1..Len(u) + Len(v) : x = (u \o v)[w]
    BY <1>2, <1>3 DEF Range
  <2>2. CASE w <= Len(u)
    BY <1>1, <1>2, <2>1, <2>2 DEF Range
  <2>3. CASE ~(w <= Len(u))
    <3>1. w - Len(u) \in 1..Len(v) /\ Len(u) + (w - Len(u)) = w
      BY <1>1, <2>3
    <3>2. x = v[w - Len(u)]
      BY <1>2, <2>1, <3>1
    <3> QED BY <1>1, <3>1, <3>2 DEF Range
  <2> QED BY <2>2, <2>3
<1>4. ASSUME NEW x, x \in Range(u) PROVE x \in Range(u \o v)
  <2>1. PICK w \in 1..Len(u) : x = u[w]
    BY <1>1, <1>4 DEF Range
  <2>2. w \in 1..Len(u) + Len(v) /\ x = (u \o v)[w]
    BY <1>1, <1>2, <2>1
  <2> QED BY <1>2, <2>2 DEF Range
<1>5. ASSUME NEW x, x \in Range(v) PROVE x \in Range(u \o v)
  <2>1. PICK w \in 1..Len(v) : x = v[w]
    BY <1>1, <1>5 DEF Range
  <2>2. Len(u) + w \in 1..Len(u) + Len(v) /\ x = (u \o v)[Len(u) + w]
    BY <1>1, <1>2, <2>1
  <2> QED BY <1>2, <2>2 DEF Range
<1> QED BY <1>3, <1>4, <1>5

(* A longer name map has the index of the occurrence, and what it had.     *)
LEMMA IndexedIs ==
  ASSUME NEW map, NEW n, NEW k \in Nat, \A m \in DOMAIN map : map[m] \in Seq(Nat)
  PROVE  /\ DOMAIN Indexed(map, n, k) = DOMAIN map \cup {n}
         /\ \A m \in DOMAIN map \cup {n} :
              /\ Indexed(map, n, k)[m] \in Seq(Nat)
              /\ \A x : x \in Range(Indexed(map, n, k)[m]) <=>
                          (m \in DOMAIN map /\ x \in Range(map[m])) \/ (m = n /\ x = k)
<1>1. DOMAIN Indexed(map, n, k) = DOMAIN map \cup {n}
  BY DEF Indexed
<1>2. ASSUME NEW m \in DOMAIN map \cup {n}
      PROVE  /\ Indexed(map, n, k)[m] \in Seq(Nat)
             /\ \A x : x \in Range(Indexed(map, n, k)[m]) <=>
                         (m \in DOMAIN map /\ x \in Range(map[m])) \/ (m = n /\ x = k)
  <2> DEFINE u == IF m \in DOMAIN map THEN map[m] ELSE <<>>
             v == IF m = n THEN <<k>> ELSE <<>>
  <2>1. u \in Seq(Nat) /\ v \in Seq(Nat)
    OBVIOUS
  <2>2. Indexed(map, n, k)[m] = u \o v
    BY DEF Indexed
  <2>3. \A x : x \in Range(u) <=> m \in DOMAIN map /\ x \in Range(map[m])
    BY DEF Range
  <2>4. \A x : x \in Range(v) <=> m = n /\ x = k
    BY DEF Range
  <2> HIDE DEF u, v
  <2>5. \A x : x \in Range(u \o v) <=> x \in Range(u) \/ x \in Range(v)
    BY <2>1, ConcatRange
  <2>6. u \o v \in Seq(Nat)
    BY <2>1
  <2> QED BY <2>2, <2>3, <2>4, <2>5, <2>6
<1> QED BY <1>1, <1>2

(* Text outside of names is kept, and of a name there is but a mark left.  *)
InName(w) == \E o \in Occurrences : w \in o + 1..o + Len(name(query, o))
Piece(w) == IF w \in Occurrences THEN <<"?">> ELSE IF InName(w) THEN <<>> ELSE <<query[w]>>
Pieces == [w \in DOMAIN query |-> Piece(w)]
Text == Characters \cup {"?"}

(* What has been parsed once w characters have.                            *)
NextFollows(s, w) ==
  /\ s.next \in Nat
  /\ \A o \in Occ(w) : End(o) < s.next
  /\ s.next > 1 => \E o \in Occ(w) : s.next = End(o) + 1

MapFollows(s, w) ==
  /\ s.index = Cardinality(Occ(w)) + 1
  /\ DOMAIN s.map = {name(query, o) : o \in Occ(w)}
  /\ \A n \in DOMAIN s.map :
       /\ s.map[n] \in Seq(Nat)
       /\ Range(s.map[n]) = {IndexOf(o) : o \in {p \in Occ(w) : name(query, p) = n}}

ParseFollows(s, w) ==
  IsParse(s) /\ s.quote = Open[w] /\ NextFollows(s, w) /\ MapFollows(s, w)

LEMMA SkipsNames ==
  ASSUME query \in Seq(Characters), NEW w \in Nat, w + 1 <= Len(query),
         NEW s, s.quote = Open[w], NextFollows(s, w)
  PROVE  /\ Skips(s, w + 1) <=> InName(w + 1)
         /\ InName(w + 1) => w + 1 \notin Occurrences /\ Open[w] = NoQuote /\ Open[w + 1] = NoQuote
         /\ Replaces(s, w + 1) <=> w + 1 \in Occurrences
<1>1. Occurrences \subseteq Nat /\ Len(query) \in Nat
  BY OccurrencesAre
<1>2. ASSUME NEW o \in Occurrences
      PROVE  End(o) \in Nat /\ End(o) = o + Len(name(query, o))
  <2>1. o \in 1..Len(query) /\ begins(query, o)
    BY DEF Occurrences
  <2>2. End(o) \in o + 1..Len(query)
    BY <2>1, NameSpan
  <2> QED BY <1>1, <2>2 DEF End
<1>3. ASSUME Skips(s, w + 1) PROVE InName(w + 1)
  <2>1. w + 1 < s.next /\ s.next \in Nat
    BY <1>3 DEF Skips, NextFollows
  <2>2. PICK o \in Occ(w) : s.next = End(o) + 1
    BY <2>1 DEF NextFollows
  <2>3. o \in Occurrences /\ o <= w
    BY <2>2 DEF Occ
  <2>4. w + 1 \in o + 1..End(o)
    BY <1>1, <1>2, <2>1, <2>2, <2>3
  <2> QED BY <1>2, <2>3, <2>4 DEF InName
<1>4. ASSUME InName(w + 1)
      PROVE  /\ Skips(s, w + 1)
             /\ w + 1 \notin Occurrences /\ Open[w] = NoQuote /\ Open[w + 1] = NoQuote
  <2>1. PICK o \in Occurrences : w + 1 \in o + 1..End(o)
    BY <1>2, <1>4 DEF InName
  <2>2. o \in Occ(w) /\ w \in o..End(o) /\ w + 1 \in o..End(o) /\ o \in Nat /\ End(o) \in Nat
    BY <1>1, <1>2, <2>1 DEF Occ
  <2>3. End(o) < s.next /\ s.next \in Nat
    BY <2>2 DEF NextFollows
  <2>4. w + 1 < s.next
    BY <2>2, <2>3
  <2> QED BY <2>1, <2>2, <2>4, NameIsPlain DEF Skips
<1>5. Replaces(s, w + 1) <=> w + 1 \in Occurrences
  <2>1. w + 1 \in DOMAIN query /\ (w + 1) - 1 = w
    BY <1>1
  <2> QED BY <2>1 DEF Replaces, Occurrences
<1> QED BY <1>3, <1>4, <1>5

LEMMA ParseStep ==
  ASSUME query \in Seq(Characters), NEW w \in Nat, w + 1 <= Len(query),
         NEW s, ParseFollows(s, w), NEW t, t = parseAt(query, s, w + 1)
  PROVE  /\ ParseFollows(t, w + 1)
         /\ w + 1 \in Occurrences => t.text = Append(s.text, "?")
         /\ w + 1 \notin Occurrences /\ InName(w + 1) => t.text = s.text
         /\ w + 1 \notin Occurrences /\ ~InName(w + 1) => t.text = Append(s.text, query[w + 1])
<1> DEFINE k == w + 1
           n == name(query, k)
<1>1. IsParse(s) /\ s.quote = Open[w] /\ NextFollows(s, w) /\ MapFollows(s, w)
  BY DEF ParseFollows
<1>2. k \in 1..Len(query) /\ w \in 0..Len(query) /\ k - 1 = w /\ k \in Nat
  OBVIOUS
<1>3. Open[w] \in OpenQuotes /\ Open[k] = After(Open[w], query[k])
  <2>1. Open[k] = After(Open[k - 1], query[k])
    <3> HIDE DEF k
    <3> QED BY <1>2, OpenIs
  <2>2. Open[w] \in OpenQuotes
    BY <1>2, OpenIs
  <2> QED BY <1>2, <2>1, <2>2
<1>4. /\ Skips(s, k) <=> InName(k)
      /\ InName(k) => k \notin Occurrences /\ Open[w] = NoQuote /\ Open[k] = NoQuote
      /\ Replaces(s, k) <=> k \in Occurrences
  BY <1>1, SkipsNames
<1>5. /\ IsFiniteSet(Occ(w)) /\ Cardinality(Occ(w)) \in Nat /\ k \notin Occ(w)
      /\ k \in Occurrences => Occ(k) = Occ(w) \cup {k}
      /\ k \notin Occurrences => Occ(k) = Occ(w)
  BY OccurrencesAre
<1>6. /\ IsParse(t)
      /\ Skips(s, k) => t = s
      /\ ~Skips(s, k) => t.quote = After(s.quote, query[k])
      /\ ~Skips(s, k) /\ Replaces(s, k) =>
           /\ t.text = Append(s.text, "?") /\ t.map = Indexed(s.map, name(query, k), s.index)
           /\ t.index = s.index + 1 /\ t.next = k + Len(name(query, k)) + 1
      /\ ~Skips(s, k) /\ ~Replaces(s, k) =>
           /\ t.text = Append(s.text, query[k]) /\ t.map = s.map
           /\ t.index = s.index /\ t.next = s.next
  <2> HIDE DEF k
  <2>1. t = parseAt(query, s, k)
    BY DEF k
  <2>2. s.quote \in OpenQuotes
    BY <1>1, <1>3
  <2> QED BY <1>1, <2>1, <2>2, ParseAtIs
<1> HIDE DEF k, n
<1>7. CASE k \in Occurrences
  <2>1. ~InName(k) /\ Occ(k) = Occ(w) \cup {k} /\ ~Skips(s, k) /\ Replaces(s, k)
    BY <1>4, <1>5, <1>7
  <2>2. /\ t.text = Append(s.text, "?") /\ t.map = Indexed(s.map, n, s.index)
        /\ t.index = s.index + 1 /\ t.next = End(k) + 1 /\ t.quote = Open[k]
    BY <1>1, <1>3, <1>6, <2>1 DEF n, End
  <2>3. NextFollows(t, k)
    <3>1. k \in 1..Len(query) /\ begins(query, k)
      BY <1>7 DEF Occurrences
    <3>2. End(k) \in k + 1..Len(query)
      BY <3>1, NameSpan
    <3>3. End(k) \in Nat /\ End(k) >= k /\ s.next \in Nat /\ s.next <= k
      BY <1>1, <1>2, <2>1, <3>2 DEF Skips, NextFollows
    <3>4. \A o \in Occ(w) : End(o) \in Nat /\ End(o) < s.next
      <4>1. ASSUME NEW o \in Occ(w) PROVE End(o) \in Nat
        <5>1. o \in 1..Len(query) /\ begins(query, o)
          BY DEF Occ, Occurrences
        <5>2. End(o) \in o + 1..Len(query)
          BY <5>1, NameSpan
        <5> QED BY <5>1, <5>2
      <4> QED BY <1>1, <4>1 DEF NextFollows
    <3>5. \A o \in Occ(k) : End(o) < End(k) + 1
      <4>1. ASSUME NEW o \in Occ(w) PROVE End(o) < End(k) + 1
        <5>1. End(o) \in Nat /\ End(o) < s.next
          BY <3>4
        <5> QED BY <1>2, <3>3, <5>1
      <4>2. End(k) < End(k) + 1
        BY <3>3
      <4> QED BY <2>1, <4>1, <4>2
    <3> QED BY <2>1, <2>2, <3>3, <3>5 DEF NextFollows
  <2>4. MapFollows(t, k)
    <3>1. IndexOf(k) = s.index /\ s.index = Cardinality(Occ(w)) + 1 /\ s.index \in Nat
          /\ Cardinality(Occ(k)) = s.index
      <4>1. Cardinality(Occ(k)) = Cardinality(Occ(w)) + 1
        BY <1>5, <2>1, FS_AddElement
      <4>2. IndexOf(k) = Cardinality(Occ(k))
        BY DEF IndexOf, Occ
      <4> QED BY <1>1, <1>5, <4>1, <4>2 DEF MapFollows
    <3>2. \A m \in DOMAIN s.map : s.map[m] \in Seq(Nat)
      BY <1>1 DEF MapFollows
    <3>3. /\ DOMAIN t.map = DOMAIN s.map \cup {n}
          /\ \A m \in DOMAIN s.map \cup {n} :
               /\ t.map[m] \in Seq(Nat)
               /\ \A x : x \in Range(t.map[m]) <=>
                           (m \in DOMAIN s.map /\ x \in Range(s.map[m])) \/ (m = n /\ x = s.index)
      <4> DEFINE map == s.map
                 index == s.index
      <4>1. \A m \in DOMAIN map : map[m] \in Seq(Nat)
        BY <3>2
      <4>2. index \in Nat
        BY <3>1
      <4>3. t.map = Indexed(map, n, index)
        BY <2>2
      <4> HIDE DEF map, index
      <4>4. DOMAIN Indexed(map, n, index) = DOMAIN map \cup {n}
        BY <4>1, <4>2, IndexedIs
      <4>5. \A m \in DOMAIN map \cup {n} :
              /\ Indexed(map, n, index)[m] \in Seq(Nat)
              /\ \A x : x \in Range(Indexed(map, n, index)[m]) <=>
                          (m \in DOMAIN map /\ x \in Range(map[m])) \/ (m = n /\ x = index)
        BY <4>1, <4>2, IndexedIs
      <4> QED BY <4>3, <4>4, <4>5 DEF map, index
    <3>4. DOMAIN t.map = {name(query, o) : o \in Occ(k)}
      BY <1>1, <2>1, <3>3 DEF MapFollows, n
    <3>5. ASSUME NEW m \in DOMAIN t.map
          PROVE  Range(t.map[m]) = {IndexOf(o) : o \in {p \in Occ(k) : name(query, p) = m}}
      <4>1. m \in DOMAIN s.map => \A x : x \in Range(s.map[m]) <=>
                                    \E o \in Occ(w) : name(query, o) = m /\ x = IndexOf(o)
        BY <1>1 DEF MapFollows
      <4>2. m \notin DOMAIN s.map => \A o \in Occ(w) : name(query, o) # m
        BY <1>1 DEF MapFollows
      <4>3. \A x : x \in Range(t.map[m]) <=>
                    (m \in DOMAIN s.map /\ x \in Range(s.map[m])) \/ (m = n /\ x = IndexOf(k))
        BY <3>1, <3>3
      <4>4. \A x : x \in Range(t.map[m]) <=> \E o \in Occ(k) : name(query, o) = m /\ x = IndexOf(o)
        BY <2>1, <4>1, <4>2, <4>3 DEF n
      <4> QED BY <4>4
    <3> QED BY <2>2, <3>1, <3>3, <3>4, <3>5 DEF MapFollows
  <2> QED BY <1>6, <1>7, <2>1, <2>2, <2>3, <2>4 DEF ParseFollows, k
<1>8. CASE k \notin Occurrences
  <2>1. Occ(k) = Occ(w) /\ ~Replaces(s, k)
    BY <1>4, <1>5, <1>8
  <2>2. t.map = s.map /\ t.index = s.index /\ t.next = s.next
    BY <1>6, <2>1
  <2>3. t.quote = Open[k]
    <3>1. CASE Skips(s, k)
      BY <1>1, <1>4, <1>6, <3>1
    <3>2. CASE ~Skips(s, k)
      BY <1>1, <1>3, <1>6, <3>2
    <3> QED BY <3>1, <3>2
  <2>4. NextFollows(t, k) /\ MapFollows(t, k)
    BY <1>1, <2>1, <2>2 DEF NextFollows, MapFollows
  <2> QED BY <1>4, <1>6, <1>8, <2>1, <2>3, <2>4 DEF ParseFollows, k
<1> QED BY <1>7, <1>8

LEMMA AppendIs ==
  ASSUME NEW S, NEW u \in Seq(S), NEW c \in S
  PROVE  Append(u, c) = u \o <<c>>
OBVIOUS

LEMMA EveryParseFollows ==
  ASSUME query \in Seq(Characters)
  PROVE  \A w \in 0..Len(query) : ParseFollows(parsed(query)[w], w)
<1> DEFINE n == Len(query)
           A == {w \in Nat : w <= n => ParseFollows(parsed(query)[w], w)}
<1>1. 0 \in A
  <2>1. Occ(0) = {} /\ parsed(query)[0] = NothingParsed /\ Open[0] = NoQuote
    BY OccurrencesAre, ParsedIs, OpenIs
  <2>2. IsParse(NothingParsed) /\ NothingParsed.quote = NoQuote /\ NothingParsed.next = 1
        /\ NothingParsed.index = 1 /\ DOMAIN NothingParsed.map = {}
    BY DEF NothingParsed, IsParse
  <2>3. Cardinality(Occ(0)) = 0
    BY <2>1, FS_EmptySet
  <2>4. NextFollows(NothingParsed, 0)
    BY <2>1, <2>2 DEF NextFollows
  <2>5. MapFollows(NothingParsed, 0)
    BY <2>1, <2>2, <2>3 DEF MapFollows
  <2> QED BY <2>1, <2>2, <2>4, <2>5 DEF ParseFollows
<1>2. ASSUME NEW w \in Nat, w \in A PROVE w + 1 \in A
  <2> SUFFICES ASSUME w + 1 <= n PROVE ParseFollows(parsed(query)[w + 1], w + 1)
    OBVIOUS
  <2>1. n \in Nat /\ w + 1 \in 1..n /\ (w + 1) - 1 = w
    OBVIOUS
  <2>2. ParseFollows(parsed(query)[w], w)
    BY <1>2, <2>1
  <2>3. parsed(query)[w + 1] = parseAt(query, parsed(query)[w], w + 1)
    <3> DEFINE k == w + 1
    <3>1. \A j \in 1..n : parsed(query)[j] = parseAt(query, parsed(query)[j - 1], j)
      BY ParsedIs
    <3>2. k \in 1..n /\ k - 1 = w
      BY <2>1
    <3> HIDE DEF k, n
    <3>3. parsed(query)[k] = parseAt(query, parsed(query)[w], k)
      BY <3>1, <3>2
    <3> QED BY <3>3 DEF k
  <2> QED BY <2>1, <2>2, <2>3, ParseStep
<1>3. Nat \subseteq A
  <2> HIDE DEF A
  <2> QED BY <1>1, <1>2, SetInduction
<1> QED BY <1>3

LEMMA TextIsKept ==
  ASSUME query \in Seq(Characters)
  PROVE  parse(query).text = FlattenSeq(Pieces)
<1> DEFINE n == Len(query)
<1>1. n \in Nat /\ DOMAIN query = 1..n /\ \A w \in 1..n : query[w] \in Characters
  OBVIOUS
<1>2. Pieces \in Seq(Seq(Text)) /\ Len(Pieces) = n /\ \A w \in 1..n : Pieces[w] = Piece(w)
  <2>1. ASSUME NEW w \in 1..n PROVE Piece(w) \in Seq(Text)
    <3>1. query[w] \in Text /\ "?" \in Text
      BY <1>1 DEF Text
    <3> QED BY <3>1 DEF Piece
  <2>2. Pieces = [w \in 1..n |-> Piece(w)]
    BY <1>1 DEF Pieces
  <2> HIDE DEF n
  <2>3. Pieces \in [1..n -> Seq(Text)]
    BY <2>1, <2>2
  <2> QED BY <1>1, <2>2, <2>3
<1>3. PICK f \in [0..n -> Seq(Text)] :
        /\ f[0] = <<>> /\ FlattenSeq(Pieces) = f[n]
        /\ \A w \in 1..n : f[w] = f[w - 1] \o Pieces[w]
  <2> DEFINE s == Pieces
  <2>1. s \in Seq(Seq(Text)) /\ Len(s) = n
    BY <1>2
  <2> HIDE DEF s, n
  <2>2. \E f \in [0..Len(s) -> Seq(Text)] :
          /\ f[0] = <<>> /\ FlattenSeq(s) = f[Len(s)]
          /\ \A w \in 1..Len(s) : f[w] = f[w - 1] \o s[w]
    BY <2>1, FlattenIs
  <2> QED BY <2>1, <2>2 DEF s
<1> DEFINE A == {w \in Nat : w <= n => parsed(query)[w].text = f[w]}
<1>4. 0 \in A
  <2>1. parsed(query)[0] = NothingParsed
    BY ParsedIs
  <2> QED BY <1>3, <2>1 DEF NothingParsed
<1>5. ASSUME NEW w \in Nat, w \in A PROVE w + 1 \in A
  <2> SUFFICES ASSUME w + 1 <= n PROVE parsed(query)[w + 1].text = f[w + 1]
    OBVIOUS
  <2> DEFINE k == w + 1
             s == parsed(query)[w]
             t == parsed(query)[k]
  <2>1. k \in 1..n /\ k - 1 = w /\ w \in 0..n /\ s.text = f[w]
    BY <1>1, <1>5
  <2>2. ParseFollows(s, w)
    BY <2>1, EveryParseFollows
  <2>3. t = parseAt(query, s, k)
    <3>1. \A j \in 1..n : parsed(query)[j] = parseAt(query, parsed(query)[j - 1], j)
      BY ParsedIs
    <3> HIDE DEF n, k
    <3> QED BY <2>1, <3>1
  <2> HIDE DEF s, t
  <2>4. /\ k \in Occurrences => t.text = Append(s.text, "?")
        /\ k \notin Occurrences /\ InName(k) => t.text = s.text
        /\ k \notin Occurrences /\ ~InName(k) => t.text = Append(s.text, query[k])
    BY <2>2, <2>3, ParseStep
  <2>5. f[k] = f[w] \o Piece(k) /\ f[w] \in Seq(Text)
    <3> DEFINE Q == Seq(Text)
    <3>1. f \in [0..n -> Q]
      BY <1>3
    <3> HIDE DEF n, k, Q
    <3>2. f[w] \in Q
      BY <2>1, <3>1
    <3>3. f[k] = f[w] \o Piece(k)
      BY <1>2, <1>3, <2>1
    <3> QED BY <3>2, <3>3 DEF Q
  <2>6. query[k] \in Text /\ "?" \in Text
    <3>1. query[k] \in Characters
      BY <1>1, <2>1
    <3> QED BY <3>1 DEF Text
  <2> HIDE DEF k
  <2>7. t.text = f[k]
    <3>1. CASE k \in Occurrences
      <4>1. f[k] = f[w] \o <<"?">> /\ t.text = Append(f[w], "?")
        BY <2>1, <2>4, <2>5, <3>1 DEF Piece
      <4>2. Append(f[w], "?") = f[w] \o <<"?">>
        BY <2>5, <2>6
      <4> QED BY <4>1, <4>2, Zenon
    <3>2. CASE k \notin Occurrences /\ InName(k)
      <4>1. f[k] = f[w] \o <<>> /\ t.text = f[w]
        BY <2>1, <2>4, <2>5, <3>2 DEF Piece
      <4>2. f[w] = f[w] \o <<>>
        BY <2>5
      <4> QED BY <4>1, <4>2, Zenon
    <3>3. CASE k \notin Occurrences /\ ~InName(k)
      <4>1. f[k] = f[w] \o <<query[k]>> /\ t.text = Append(f[w], query[k])
        BY <2>1, <2>4, <2>5, <3>3 DEF Piece
      <4>2. Append(f[w], query[k]) = f[w] \o <<query[k]>>
        BY <2>5, <2>6, AppendIs
      <4> QED BY <4>1, <4>2, Zenon
    <3> QED BY <3>1, <3>2, <3>3
  <2> QED BY <2>7 DEF k, t
<1> HIDE DEF A
<1>6. n \in A
  BY <1>1, <1>4, <1>5, SetInduction
<1>7. parsed(query)[n].text = f[n]
  BY <1>1, <1>6 DEF A
<1> QED BY <1>3, <1>7 DEF parse

-------------------------------------------------------------------------------
(* The statement of a query is its parse, and the values set are those of  *)
(* names, the same ones at every index of a name.                          *)
QueryFollows ==
  /\ query \in Seq(Characters) /\ Len(query) <= MaxLength
  /\ wrapped = parse(query)

BoundFollows ==
  /\ bound \in [1..wrapped.index - 1 -> SUBSET DOMAIN wrapped.map]
  /\ \A k \in DOMAIN bound : \A n \in bound[k] : k \in Range(wrapped.map[n])
  /\ \A n \in DOMAIN wrapped.map : \A j, k \in DOMAIN bound :
       j \in Range(wrapped.map[n]) /\ k \in Range(wrapped.map[n]) =>
         (n \in bound[j] <=> n \in bound[k])

StatementIInv == QueryFollows /\ BoundFollows

LEMMA NothingIsParsed == query = <<>> => parse(query) = NothingParsed
<1> SUFFICES ASSUME query = <<>> PROVE parse(query) = NothingParsed
  OBVIOUS
<1>1. query \in Seq(Characters) /\ Len(query) = 0
  OBVIOUS
<1> QED BY <1>1, ParsedIs DEF parse

LEMMA NothingFollows ==
  query = <<>> /\ wrapped = NothingParsed /\ bound = <<>> => StatementIInv
<1> SUFFICES ASSUME query = <<>>, wrapped = NothingParsed, bound = <<>> PROVE StatementIInv
  OBVIOUS
<1>1. QueryFollows
  <2>1. MaxLength \in Nat
    BY NamedParameterAssumption
  <2>2. query \in Seq(Characters) /\ Len(query) = 0
    OBVIOUS
  <2>3. wrapped = parse(query)
    BY NothingIsParsed
  <2> QED BY <2>1, <2>2, <2>3 DEF QueryFollows
<1>2. wrapped.index - 1 = 0 /\ DOMAIN wrapped.map = {}
  BY DEF NothingParsed
<1>3. BoundFollows
  BY <1>2 DEF BoundFollows
<1> QED BY <1>1, <1>3 DEF StatementIInv

LEMMA PrepareStep ==
  ASSUME StatementIInv, NEW c \in Characters, Prepare(c)
  PROVE  StatementIInv'
<1>1. QueryFollows'
  <2>1. query \in Seq(Characters) /\ Len(query) < MaxLength /\ MaxLength \in Nat
    BY NamedParameterAssumption DEF StatementIInv, QueryFollows, Prepare
  <2>2. query' = Append(query, c) /\ wrapped' = parse(query')
    BY DEF Prepare
  <2>3. query' \in Seq(Characters) /\ Len(query') <= MaxLength
    BY <2>1, <2>2
  <2> QED BY <2>2, <2>3 DEF QueryFollows
<1>2. bound' = [k \in 1..wrapped'.index - 1 |-> {}]
  BY DEF Prepare
<1>3. BoundFollows'
  BY <1>2 DEF BoundFollows
<1> QED BY <1>1, <1>3 DEF StatementIInv

LEMMA SetValuesStep ==
  ASSUME StatementIInv, NEW parameters, SetValues(parameters)
  PROVE  StatementIInv'
<1>1. QueryFollows' /\ wrapped' = wrapped
  BY DEF StatementIInv, QueryFollows, SetValues
<1>2. BoundFollows
  BY DEF StatementIInv
<1>3. PICK set \in SUBSET (parameters \cap DOMAIN wrapped.map) :
        bound' = [k \in DOMAIN bound |->
                    bound[k] \cup {n \in set : k \in Range(wrapped.map[n])}]
  BY DEF SetValues
<1>4. DOMAIN bound' = DOMAIN bound
  BY <1>3
<1>5. ASSUME NEW k \in DOMAIN bound, NEW n
      PROVE  n \in bound'[k] <=> n \in bound[k] \/ (n \in set /\ k \in Range(wrapped.map[n]))
  BY <1>3
<1>6. bound' \in [1..wrapped.index - 1 -> SUBSET DOMAIN wrapped.map]
  BY <1>2, <1>3 DEF BoundFollows
<1>7. \A k \in DOMAIN bound : \A n \in bound'[k] : k \in Range(wrapped.map[n])
  BY <1>2, <1>5 DEF BoundFollows
<1>8. ASSUME NEW n \in DOMAIN wrapped.map, NEW j \in DOMAIN bound, NEW k \in DOMAIN bound,
             j \in Range(wrapped.map[n]), k \in Range(wrapped.map[n])
      PROVE  n \in bound'[j] <=> n \in bound'[k]
  BY <1>2, <1>5, <1>8 DEF BoundFollows
<1>9. BoundFollows'
  BY <1>1, <1>4, <1>6, <1>7, <1>8 DEF BoundFollows
<1> QED BY <1>1, <1>9 DEF StatementIInv

LEMMA StatementStep == StatementIInv /\ [StatementNext]_statementVars => StatementIInv'
<1> SUFFICES ASSUME StatementIInv, [StatementNext]_statementVars PROVE StatementIInv'
  OBVIOUS
<1>1. ASSUME NEW c \in Characters, Prepare(c) PROVE StatementIInv'
  BY <1>1, PrepareStep
<1>2. ASSUME NEW parameters, SetValues(parameters) PROVE StatementIInv'
  BY <1>2, SetValuesStep
<1>3. CASE UNCHANGED statementVars
  BY <1>3 DEF statementVars, StatementIInv, QueryFollows, BoundFollows
<1> QED BY <1>1, <1>2, <1>3 DEF StatementNext

(* What the parse of a query says of its occurrences is what was asked.    *)
LEMMA StatementReadOff == StatementIInv => StatementAsAsked
<1> SUFFICES ASSUME StatementIInv PROVE StatementAsAsked
  OBVIOUS
<1>1. query \in Seq(Characters) /\ Len(query) <= MaxLength /\ wrapped = parse(query) /\ BoundFollows
  BY DEF StatementIInv, QueryFollows
<1>2. Occ(Len(query)) = Occurrences /\ Len(query) \in Nat /\ Len(query) \in 0..Len(query)
  BY <1>1, OccurrencesAre
<1>3. wrapped.quote = Open[Len(query)] /\ MapFollows(wrapped, Len(query))
  BY <1>1, <1>2, EveryParseFollows DEF ParseFollows, parse
<1>4. /\ wrapped.index = Cardinality(Occurrences) + 1
      /\ DOMAIN wrapped.map = {name(query, w) : w \in Occurrences}
      /\ \A n \in DOMAIN wrapped.map :
           Range(wrapped.map[n]) = {IndexOf(w) : w \in {o \in Occurrences : name(query, o) = n}}
  BY <1>2, <1>3 DEF MapFollows
<1>5. StatementTypeOK
  <2>1. wrapped.quote \in Quotes \cup {NoQuote}
    BY <1>1, <1>2, <1>3, OpenIs DEF OpenQuotes
  <2> QED BY <1>1, <2>1 DEF StatementTypeOK, BoundFollows
<1>6. EveryOccurrenceIndexed
  BY <1>4 DEF EveryOccurrenceIndexed
<1>7. OthersKept
  <2>1. wrapped.text = FlattenSeq(Pieces)
    BY <1>1, TextIsKept
  <2> QED BY <2>1 DEF OthersKept, Pieces, Piece, InName
<1>8. ValuesReachTheirs
  <2>1. ASSUME NEW o \in Occurrences
        PROVE  /\ IndexOf(o) \in DOMAIN bound /\ name(query, o) \in DOMAIN wrapped.map
               /\ IndexOf(o) \in Range(wrapped.map[name(query, o)])
               /\ bound[IndexOf(o)] \subseteq {name(query, o)}
    <3>1. IndexOf(o) \in 1..Cardinality(Occurrences)
      BY <1>1, IndexesDiffer
    <3>2. Cardinality(Occurrences) \in Nat
      BY <1>1, <1>2, OccurrencesAre
    <3>3. IndexOf(o) \in DOMAIN bound
      BY <1>1, <1>4, <3>1, <3>2 DEF BoundFollows
    <3>4. name(query, o) \in DOMAIN wrapped.map /\ IndexOf(o) \in Range(wrapped.map[name(query, o)])
      BY <1>4
    <3>5. ASSUME NEW n \in bound[IndexOf(o)] PROVE n = name(query, o)
      <4>1. n \in DOMAIN wrapped.map /\ IndexOf(o) \in Range(wrapped.map[n])
        BY <1>1, <3>3 DEF BoundFollows
      <4>2. PICK p \in Occurrences : name(query, p) = n /\ IndexOf(p) = IndexOf(o)
        BY <1>4, <4>1
      <4>3. p = o
        BY <1>1, <4>2, IndexesDiffer
      <4> QED BY <4>2, <4>3
    <3> QED BY <3>3, <3>4, <3>5
  <2>2. ASSUME NEW o \in Occurrences, NEW p \in Occurrences, name(query, o) = name(query, p)
        PROVE  bound[IndexOf(o)] = bound[IndexOf(p)]
    <3> DEFINE n == name(query, o)
    <3>1. bound[IndexOf(o)] \subseteq {n} /\ bound[IndexOf(p)] \subseteq {n}
      BY <2>1, <2>2
    <3>2. n \in bound[IndexOf(o)] <=> n \in bound[IndexOf(p)]
      BY <1>1, <2>1, <2>2 DEF BoundFollows
    <3> QED BY <3>1, <3>2
  <2> QED BY <2>1, <2>2 DEF ValuesReachTheirs
<1> QED BY <1>5, <1>6, <1>7, <1>8 DEF StatementAsAsked

(* For a query of any length, over any alphabet, the prepared statement    *)
(* asks what was asked: every parameter outside of quotes is replaced and  *)
(* indexed, nothing else is touched, and each value is set at all the      *)
(* indexes of its own name and nowhere else, whatever order a map is read  *)
(* in and wherever an unknown name stops it.                               *)
THEOREM StatementsAskAsAsked == MCSpec => []StatementAsAsked
<1>1. MCInit => StatementIInv
  BY NothingFollows DEF MCInit, StatementInit
<1>2. StatementIInv /\ [MCNext]_requestVars => StatementIInv'
  <2> SUFFICES ASSUME StatementIInv, [MCNext]_requestVars PROVE StatementIInv'
    OBVIOUS
  <2>1. CASE Query
    BY <2>1, StatementStep DEF Query
  <2>2. CASE Queried
    <3>1. query' = <<>> /\ wrapped' = NothingParsed /\ bound' = <<>>
      BY <2>2 DEF Queried
    <3>2. (query = <<>> /\ wrapped = NothingParsed /\ bound = <<>> => StatementIInv)'
      BY NothingFollows, PTL
    <3> QED BY <3>1, <3>2
  <2>3. CASE Export
    BY <2>3, StatementStep DEF Export
  <2>4. CASE UNCHANGED requestVars
    BY <2>4, StatementStep DEF requestVars
  <2> QED BY <2>1, <2>2, <2>3, <2>4 DEF MCNext
<1>3. MCSpec => []StatementIInv
  BY <1>1, <1>2, PTL DEF MCSpec
<1> QED BY <1>3, StatementReadOff, PTL
===============================================================================
