-------------------------- MODULE MCFakeUnitOfWork --------------------------
(* The fake unit of work on three rows of one column and two values.       *)
EXTENDS FakeUnitOfWork

CONSTANTS model, node, run, content, old, new

MCKeys == {model, node, run}
MCColumns == {content}
MCValues == {old, new}
MCRows == [Columns -> Values]
=============================================================================
