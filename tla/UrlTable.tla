------------------------------ MODULE UrlTable ------------------------------
(***************************************************************************)
(* The table of seen URLs of libspider/HashTable.cpp, and the files it is   *)
(* saved to and loaded from, with crashes between any two of its calls.     *)
(*                                                                          *)
(* The table is the set of its bits that are 1.  A file is the part of a    *)
(* table that has been written to it: the bits below len.                   *)
(***************************************************************************)
EXTENDS Integers

CONSTANTS
  TableKeys,    \* the URLs and pages looked up
  TableSize,    \* the size of the table, in units of a write
  TableCode     \* hashCode, and the code testSet gives a page; codes may collide

TableBits == 0 .. TableSize - 1

ASSUME TableAssumption ==
  /\ TableSize \in Nat \ {0}
  /\ TableCode \in [TableKeys -> TableBits]

VARIABLES
  tablePc,      \* "down", "up", or where saveToFile is
  tableSet,     \* m_table
  tablePos,     \* pos of saveToFile
  tableBak,     \* hashtable.bak
  tableOld,     \* hashtable.old
  tableHad,     \* hashtable.bak when the latest save began
  tableGivenUp  \* the latest save ran to its end without writing the whole table

tableFiles == <<tableBak, tableOld>>
tableVars == <<tablePc, tableSet, tablePos, tableFiles, tableHad, tableGivenUp>>

TableFile == [len : -1 .. TableSize, bits : SUBSET TableBits]
TableNoFile == [len |-> -1, bits |-> {}]
TableComplete(f) == f.len = TableSize

-----------------------------------------------------------------------------
TableInit ==
  /\ tablePc = "down" /\ tableSet = {} /\ tablePos = 0
  /\ tableBak = TableNoFile /\ tableOld = TableNoFile
  /\ tableHad = TableNoFile /\ tableGivenUp = FALSE

\* The constructor with create: an empty table.
TableCreate ==
  /\ tablePc = "down"
  /\ tablePc' = "up" /\ tableSet' = {}
  /\ UNCHANGED <<tablePos, tableFiles, tableHad, tableGivenUp>>

\* The constructor without: hashtable.bak, or an empty table when there is none;
\* a file that is too short ends the process.
TableLoad ==
  /\ tablePc = "down"
  /\ IF tableBak = TableNoFile THEN tablePc' = "up" /\ tableSet' = {}
     ELSE IF tableBak.len = TableSize THEN tablePc' = "up" /\ tableSet' = tableBak.bits
     ELSE UNCHANGED <<tablePc, tableSet>>
  /\ UNCHANGED <<tablePos, tableFiles, tableHad, tableGivenUp>>

\* set, and both testSet, which return whether the bit was clear.
TableAdd(k) ==
  /\ tablePc = "up"
  /\ tableSet' = tableSet \cup {TableCode[k]}
  /\ UNCHANGED <<tablePc, tablePos, tableFiles, tableHad, tableGivenUp>>

\* saveToFile: rename, which fails when there is no hashtable.bak.
SaveRename ==
  /\ tablePc = "up"
  /\ tablePc' = "create"
  /\ IF tableBak = TableNoFile THEN UNCHANGED tableFiles
     ELSE tableOld' = tableBak /\ tableBak' = TableNoFile
  /\ tableHad' = tableBak /\ tableGivenUp' = FALSE
  /\ UNCHANGED <<tableSet, tablePos>>

\* Fault: hashtable.old is removed before the table is written.
SaveCreateUnlinks ==
  /\ tablePc = "create"
  /\ tablePc' = "write" /\ tablePos' = 0
  /\ tableBak' = [len |-> 0, bits |-> {}] /\ tableOld' = TableNoFile
  /\ UNCHANGED <<tableSet, tableHad, tableGivenUp>>

\* creat, which may fail.
SaveCreate ==
  /\ tablePc = "create"
  /\ \/ /\ tablePc' = "write" /\ tablePos' = 0
        /\ tableBak' = [len |-> 0, bits |-> {}]
     \/ tablePc' = "unlink" /\ UNCHANGED <<tablePos, tableBak>>
  /\ UNCHANGED <<tableSet, tableOld, tableHad, tableGivenUp>>

\* One write, of any part of what is left, or an error other than EINTR, which
\* ends the loop.
SaveWrite ==
  /\ tablePc = "write"
  /\ IF tablePos < TableSize
     THEN \/ \E i \in 1 .. TableSize - tablePos :
               /\ tablePos' = tablePos + i
               /\ tableBak' = [len |-> tablePos + i, bits |-> tableSet \cap (0 .. tablePos + i - 1)]
               /\ UNCHANGED tablePc
          \/ tablePc' = "unlink" /\ UNCHANGED <<tablePos, tableBak>>
     ELSE tablePc' = "unlink" /\ UNCHANGED <<tablePos, tableBak>>
  /\ UNCHANGED <<tableSet, tableOld, tableHad, tableGivenUp>>

\* unlink of hashtable.old, whether the table was written or not.
SaveUnlink ==
  /\ tablePc = "unlink"
  /\ tablePc' = "up"
  /\ tableOld' = TableNoFile
  /\ tableGivenUp' = ~ TableComplete(tableBak)
  /\ UNCHANGED <<tableSet, tablePos, tableBak, tableHad>>

\* The process ends, at any moment.
TableCrash ==
  /\ tablePc # "down"
  /\ tablePc' = "down" /\ tableSet' = {}
  /\ UNCHANGED <<tablePos, tableFiles, tableHad, tableGivenUp>>

TableNext ==
  \/ TableCreate
  \/ TableLoad
  \/ \E k \in TableKeys : TableAdd(k)
  \/ SaveRename
  \/ SaveCreate
  \/ SaveWrite
  \/ SaveUnlink
  \/ TableCrash

TableSpec == TableInit /\ [][TableNext]_tableVars

-----------------------------------------------------------------------------
TableTypeOK ==
  /\ tablePc \in {"down", "up", "create", "write", "unlink"}
  /\ tableSet \subseteq TableBits /\ tablePos \in 0 .. TableSize
  /\ tableBak \in TableFile /\ tableOld \in TableFile /\ tableHad \in TableFile
  /\ tableGivenUp \in BOOLEAN

\* A save that began with a complete hashtable.bak leaves that table under its other
\* name, or the whole of the new one, wherever it is cut off by a crash; only a save
\* that ran to its end although it could not write removes the last complete table.
TableKept ==
  TableComplete(tableHad) /\ ~ tableGivenUp =>
    TableComplete(tableBak) \/ tableOld = tableHad

=============================================================================
