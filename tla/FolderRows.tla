------------------------------ MODULE FolderRows ------------------------------
(***************************************************************************)
(* The rows of a folder: the order the table gives them                    *)
(* (folder-list-table.component.ts), which the cards do not                *)
(* (folder-list-cards.component.ts).                                       *)
(*                                                                         *)
(* Of a row the model keeps what the comparison reads: isDir, the name,    *)
(* size, lastModified and mimeType.  The latter three may be Missing and   *)
(* are natural numbers otherwise, in the order of what they stand for.     *)
(***************************************************************************)
EXTENDS Integers, Sequences, FiniteSets

CONSTANTS
  Missing,    \* an optional field that rclone left out
  LowerRank,  \* names in the order of toLowerCase() compared by code units
  LocaleRank  \* names in the order of localeCompare

SortFields == {"name", "lastModified", "size", "mimeType"}
NoSort == [field |-> "none", direction |-> "asc"]
SortConfigs == {NoSort} \cup [field : SortFields, direction : {"asc", "desc"}]

ASSUME RanksAreNumbers ==
  /\ \A name \in DOMAIN LowerRank : LowerRank[name] \in Int
  /\ \A name \in DOMAIN LocaleRank : LocaleRank[name] \in Int

OrZero(x) == IF x = Missing THEN 0 ELSE x

IsRow(row) ==
  /\ row.isDir \in BOOLEAN
  /\ row.name \in DOMAIN LowerRank /\ row.name \in DOMAIN LocaleRank
  /\ \A field \in SortFields \ {"name"} : OrZero(row[field]) \in Int

(* What two rows of one kind are compared by; with no sort chosen, by name. *)
SortKey(row, sort) ==
  CASE sort.field = "none" -> LocaleRank[row.name]
    [] sort.field = "name" -> LowerRank[row.name]
    [] OTHER               -> OrZero(row[sort.field])

(* Mutant of Before: the direction turns the folders' place as well.        *)
BeforeFoldersTurn(a, b, sort) ==
  LET up == sort.direction = "asc" IN
  IF a.isDir # b.isDir THEN a.isDir = up
  ELSE IF up THEN SortKey(a, sort) < SortKey(b, sort)
             ELSE SortKey(b, sort) < SortKey(a, sort)

(* The comparison is negative.                                              *)
Before(a, b, sort) ==
  IF a.isDir # b.isDir THEN a.isDir
  ELSE IF sort.direction = "asc" THEN SortKey(a, sort) < SortKey(b, sort)
                                 ELSE SortKey(b, sort) < SortKey(a, sort)

(* Array.sort is stable: rows that compare equal stay as the server sent    *)
(* them.                                                                    *)
Ahead(rows, sort, i, j) ==
  \/ Before(rows[i], rows[j], sort)
  \/ ~Before(rows[j], rows[i], sort) /\ i < j

(* The k-th row shown is the one k - 1 others are ahead of.                 *)
Place(rows, sort, j) ==
  1 + Cardinality({i \in DOMAIN rows : Ahead(rows, sort, i, j)})

SortedRows(rows, sort) ==
  [k \in DOMAIN rows |-> rows[CHOOSE j \in DOMAIN rows : Place(rows, sort, j) = k]]

(* A click on the head of a column.                                         *)
ToggleSort(sort, field) ==
  [field |-> field,
   direction |-> IF sort.field = field /\ sort.direction = "asc" THEN "desc" ELSE "asc"]
=============================================================================
