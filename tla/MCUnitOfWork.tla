---------------------------- MODULE MCUnitOfWork ----------------------------
(* Two units on one model and one run of it; rows have two columns.        *)
EXTENDS UnitOfWorkProperties, TLC

CONSTANTS u1, u2, model, run, left, right, old, new, bad

TwoUnits == {u1, u2}
ModelAndRun == {model, run}
TwoColumns == {left, right}
OneColumn == {left}
MCValues == {old, new, bad}
MCRejected == {bad}
RunHasModel == (run :> {model}) @@ (model :> {})
NoParents == [k \in Keys |-> {}]

\* Updates of one column or the other, and a row the database rejects.
MCRows == {[c \in Columns |-> old],
           [c \in Columns |-> IF c = left THEN new ELSE old],
           [c \in Columns |-> IF c = right THEN new ELSE old],
           [c \in Columns |-> bad]}
OneRow == {[c \in Columns |-> old]}
Symmetry == Permutations(Units) \cup Permutations(Columns)
=============================================================================
