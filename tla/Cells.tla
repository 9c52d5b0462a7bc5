------------------------------- MODULE Cells -------------------------------
(***************************************************************************)
(* The content of the five tables, one value per row and column.  Nothing  *)
(* in the program deletes a row, so a row that is absent is one without    *)
(* values, and NULL is a value like another.                               *)
(***************************************************************************)

CONSTANTS
  Keys,     \* primary keys, of all tables
  Columns,  \* columns other than the primary key
  Values,
  Rows,     \* what callers add, a subset of [Columns -> Values]
  None      \* no value: the row is absent, or a change leaves the cell alone

ASSUME NoneAssumption == None \notin Values \cup Keys
ASSUME RowsAssumption == Rows \subseteq [Columns -> Values]

Cell == Keys \X Columns
Contents == [Cell -> Values \cup {None}]
Nothing == [c \in Cell |-> None]

Overlay(below, above) ==
  [c \in Cell |-> IF above[c] # None THEN above[c] ELSE below[c]]

Touches(content, k) == \E col \in Columns : content[<<k, col>>] # None

Row(content, k) == [col \in Columns |-> content[<<k, col>>]]
=============================================================================
