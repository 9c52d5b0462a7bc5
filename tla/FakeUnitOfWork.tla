--------------------------- MODULE FakeUnitOfWork ---------------------------
(***************************************************************************)
(* persistence/fakes.py: FakeUnitOfWork, the unit of work of the tests.    *)
(* One object, entered by one task at a time, keeps what is committed and  *)
(* hands out repositories on a clone of it.  No method awaits, so each is  *)
(* a step.  An add() through a repository kept from an earlier block goes  *)
(* to a clone that nobody reads again and is left out.  Names it shares    *)
(* with UnitOfWork begin with fake_.                                       *)
(***************************************************************************)
EXTENDS Cells

VARIABLES
  _committed,      \* self._committed
  active,          \* self._working is not None
  _working,        \* self._working while active
  fake_committed,  \* self.committed
  added,           \* rows added since __aenter__ or commit() (history)
  rolled_back      \* rollback() was the last call of the block (history)

fakeUnitVars ==
  <<_committed, active, _working, fake_committed, added, rolled_back>>

FakeUnitInit ==
  /\ _committed = Nothing
  /\ active = FALSE
  /\ _working = Nothing
  /\ fake_committed = FALSE
  /\ added = {}
  /\ rolled_back = FALSE

__aenter__ ==
  /\ ~active
  /\ active' = TRUE
  /\ _working' = _committed
  /\ fake_committed' = FALSE
  /\ added' = {}
  /\ rolled_back' = FALSE
  /\ UNCHANGED _committed

Replaced(k, row) ==
  [c \in Cell |-> IF c[1] = k THEN row[c[2]] ELSE _working[c]]

\* The repositories replace the whole row, and check nothing.
fake_add(k, row) ==
  /\ active
  /\ _working' = Replaced(k, row)
  /\ added' = added \cup {k}
  /\ rolled_back' = FALSE
  /\ UNCHANGED <<_committed, active, fake_committed>>

fake_commit ==
  /\ active
  /\ _committed' = _working
  /\ fake_committed' = TRUE
  /\ added' = {}
  /\ rolled_back' = FALSE
  /\ UNCHANGED <<active, _working>>

\* Only the flag: what was added stays in the clone.
fake_rollback ==
  /\ active
  /\ fake_committed' = FALSE
  /\ rolled_back' = TRUE
  /\ UNCHANGED <<_committed, active, _working, added>>

__aexit__ ==
  /\ active
  /\ active' = FALSE
  /\ _working' = Nothing
  /\ added' = {}
  /\ rolled_back' = FALSE
  /\ UNCHANGED <<_committed, fake_committed>>

FakeUnitNext ==
  \/ __aenter__
  \/ \E k \in Keys, row \in Rows : fake_add(k, row)
  \/ fake_commit
  \/ fake_rollback
  \/ __aexit__

FakeUnitSpec == FakeUnitInit /\ [][FakeUnitNext]_fakeUnitVars
-----------------------------------------------------------------------------
\* What was added since the block began or last committed.
Uncommitted == [c \in Cell |-> IF c[1] \in added THEN _working[c] ELSE None]

FakeUnit == "fake"

FakeStore == INSTANCE TransactionalStore WITH
  Units <- {FakeUnit},
  store <- _committed,
  changes <- [u \in {FakeUnit} |-> Uncommitted]

\* The fake keeps the same promise as the SQLAlchemy unit of work: nothing is
\* stored but by a commit, all that was added is stored by it, and a block that
\* ends without one stores nothing.
FakeStoreSpec == FakeStore!StoreSpec

\* rollback() discards what the unit has added.
RollbackDiscards == rolled_back => Uncommitted = Nothing
=============================================================================
