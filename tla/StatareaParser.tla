----------------------------- MODULE StatareaParser -----------------------------
(***************************************************************************)
(* parseStatareaRaw: the rows of a page that are kept for the requested    *)
(* date, the rows that are rejected and why, and the repeated ones.        *)
(*                                                                         *)
(* A row is [home, away, date, columns].  A team is <<name, spelling>>,    *)
(* of which norm() keeps the name, or Absent when its text is empty; date is *)
(* Absent when the header is not a date; columns stands for the kickoff, the *)
(* competition and the cells, and is Absent when every cell is empty.        *)
(* Warnings and the constant registry of the columns are left out.         *)
(***************************************************************************)
EXTENDS Integers, Sequences, FiniteSets

CONSTANT Absent       \* an empty text, a missing date, a row or file that is not there

Norm(team) == team[1]

(* The order in which the reasons are collected.                           *)
ReasonOrder == << "EMPTY_TEAM", "IDENTICAL_TEAMS", "INDETERMINATE_DATE",
                  "DATE_MISMATCH", "NOT_A_SPORTS_ROW" >>

Applies(reason, row, date) ==
  CASE reason = "EMPTY_TEAM"         -> Absent \in {row.home, row.away}
    [] reason = "IDENTICAL_TEAMS"    -> /\ Absent \notin {row.home, row.away}
                                        /\ Norm(row.home) = Norm(row.away)
    [] reason = "INDETERMINATE_DATE" -> row.date = Absent
    [] reason = "DATE_MISMATCH"      -> row.date \notin {Absent, date}
    [] reason = "NOT_A_SPORTS_ROW"   -> row.columns = Absent

(* A row has its reasons by their places; the first gives the reason code. *)
Reasons(row, date) == {i \in DOMAIN ReasonOrder : Applies(ReasonOrder[i], row, date)}

ReasonCode(row, date) ==
  ReasonOrder[CHOOSE i \in Reasons(row, date) : \A j \in Reasons(row, date) : i <= j]

(* The key is a hash of the requested date and of all but the row's date.  *)
RowKey(row) == <<row.home, row.away, row.columns>>

Accepted(rows, date) == {i \in DOMAIN rows : Reasons(rows[i], date) = {}}

(* Of accepted rows with the same key the first is kept.                   *)
Kept(rows, date) ==
  {i \in Accepted(rows, date) :
     \A j \in Accepted(rows, date) : j < i => RowKey(rows[j]) # RowKey(rows[i])}

(* What is found out about a page; a rejection has its reason code.        *)
Parse(rows, date) ==
  [found      |-> Len(rows),
   rows       |-> {rows[i] : i \in Kept(rows, date)},
   rejections |-> [i \in DOMAIN rows \ Accepted(rows, date) |-> ReasonCode(rows[i], date)],
   duplicates |-> Cardinality(Accepted(rows, date) \ Kept(rows, date))]
=============================================================================
