----------------------------- MODULE UnitOfWork -----------------------------
(***************************************************************************)
(* persistence/sqlalchemy.py: SQLAlchemyUnitOfWork and its repositories,   *)
(* several units at a time on one PostgreSQL database.                     *)
(*                                                                         *)
(* A step of a unit is one statement it sends, or what the coroutine does  *)
(* when an `await` returns.  The session is external and modelled by what  *)
(* it does for the calls made here: add() is session.merge(), which first  *)
(* flushes what the previous add() left, then reads the row (the session   *)
(* forgets objects that nobody holds), and stages an INSERT, or an UPDATE  *)
(* of the columns that differ; a query flushes first too.  The database    *)
(* runs at READ COMMITTED: a row that was written stays locked until its   *)
(* transaction ends.                                                       *)
(***************************************************************************)
EXTENDS Cells, Naturals

CONSTANTS
  Units,    \* units of work, one `async with` at a time each
  Parents,  \* Parents[k]: the rows that k has foreign keys to
  Rejected, \* values that a CHECK constraint rejects
  MaxAdds   \* bound on the add() calls of all units

ASSUME ParentsAssumption == Parents \in [Keys -> SUBSET Keys]
ASSUME MaxAddsAssumption == MaxAdds \in Nat

VARIABLES
  db,         \* what is committed
  session,    \* session[u]: "closed", "open", or "failed" until rolled back
  pc,         \* pc[u]: the call of u that has not returned
  arg,        \* arg[u]: the key and row of that call
  staged,     \* staged[u]: the change merge() left for the next flush
  inserting,  \* inserting[u]: that change is an INSERT
  written,    \* written[u]: what u's transaction wrote
  committed,  \* self.committed
  outcome,    \* outcome[u]: attribute db.transaction.outcome of the span
  adds,       \* add() calls so far
  stored,     \* stored[u]: some commit since __aenter__ or rollback() (history)
  overtaken   \* rows committed by one unit while staged by another (history)

dbVars == <<db, overtaken>>
unitVars == <<committed, outcome, stored>>
workVars == <<staged, inserting, written>>
vars == <<dbVars, session, pc, arg, workVars, unitVars, adds>>

NoArg == [key |-> None, row |-> None]

Init ==
  /\ db = Nothing
  /\ session = [u \in Units |-> "closed"]
  /\ pc = [u \in Units |-> "idle"]
  /\ arg = [u \in Units |-> NoArg]
  /\ staged = [u \in Units |-> Nothing]
  /\ inserting = [u \in Units |-> FALSE]
  /\ written = [u \in Units |-> Nothing]
  /\ committed = [u \in Units |-> FALSE]
  /\ outcome = [u \in Units |-> "none"]
  /\ adds = 0
  /\ stored = [u \in Units |-> FALSE]
  /\ overtaken = {}

Goto(u, from, to) == pc[u] = from /\ pc' = [pc EXCEPT ![u] = to]

\* The transaction of u ends without effect.
Abort(u) ==
  /\ staged' = [staged EXCEPT ![u] = Nothing]
  /\ inserting' = [inserting EXCEPT ![u] = FALSE]
  /\ written' = [written EXCEPT ![u] = Nothing]

\* An exception leaves the pending call; the session wants a rollback().
Raise(u) ==
  /\ Abort(u)
  /\ pc' = [pc EXCEPT ![u] = "idle"]
  /\ arg' = [arg EXCEPT ![u] = NoArg]
  /\ session' = [session EXCEPT ![u] = "failed"]
  /\ UNCHANGED <<dbVars, unitVars, adds>>
-----------------------------------------------------------------------------
(* What a caller does.  A call on a failed session raises at once and      *)
(* changes nothing.                                                        *)

Enter(u) ==
  /\ session[u] = "closed"
  /\ session' = [session EXCEPT ![u] = "open"]
  /\ committed' = [committed EXCEPT ![u] = FALSE]
  /\ outcome' = [outcome EXCEPT ![u] = "none"]
  /\ stored' = [stored EXCEPT ![u] = FALSE]
  /\ UNCHANGED <<dbVars, pc, arg, workVars, adds>>

add(u, k, row) ==
  /\ session[u] = "open"
  /\ adds < MaxAdds
  /\ Goto(u, "idle", "adding")
  /\ arg' = [arg EXCEPT ![u] = [key |-> k, row |-> row]]
  /\ adds' = adds + 1
  /\ UNCHANGED <<dbVars, session, workVars, unitVars>>

\* get() and the list methods of the repositories.
query(u) ==
  /\ session[u] = "open"
  /\ Goto(u, "idle", "querying")
  /\ UNCHANGED <<dbVars, session, arg, workVars, unitVars, adds>>

\* Mutant: the flag is set before the commit is awaited.
commitFlaggedFirst(u) ==
  /\ session[u] = "open"
  /\ Goto(u, "idle", "committing")
  /\ committed' = [committed EXCEPT ![u] = TRUE]
  /\ UNCHANGED <<dbVars, session, arg, workVars, outcome, stored, adds>>

commit(u) ==
  /\ session[u] = "open"
  /\ Goto(u, "idle", "committing")
  /\ UNCHANGED <<dbVars, session, arg, workVars, unitVars, adds>>

\* The flags it sets after its `await` are u's own: one step stands for both.
rollback(u) ==
  /\ session[u] # "closed"
  /\ pc[u] = "idle"
  /\ Abort(u)
  /\ session' = [session EXCEPT ![u] = "open"]
  /\ committed' = [committed EXCEPT ![u] = FALSE]
  /\ outcome' = [outcome EXCEPT ![u] = "rollback"]
  /\ stored' = [stored EXCEPT ![u] = FALSE]
  /\ UNCHANGED <<dbVars, pc, arg, adds>>

\* It is interrupted at that `await`, before or after the session is reset.
rollbackInterrupted(u) ==
  /\ session[u] # "closed"
  /\ pc[u] = "idle"
  /\ Abort(u)
  /\ \E state \in {"open", "failed"} : session' = [session EXCEPT ![u] = state]
  /\ UNCHANGED <<dbVars, pc, arg, unitVars, adds>>

\* Mutant: the session of a unit that committed is not closed.
LeaveUnclosed(u) ==
  /\ session[u] # "closed"
  /\ pc[u] = "idle"
  /\ IF committed[u] THEN UNCHANGED workVars ELSE Abort(u)
  /\ session' = [session EXCEPT ![u] = "closed"]
  /\ outcome' = [outcome EXCEPT ![u] = IF committed[u] THEN @ ELSE "rollback"]
  /\ UNCHANGED <<dbVars, pc, arg, committed, stored, adds>>

\* __aexit__: rollback() unless committed, which may be interrupted, and close()
\* in any case.
Leave(u) ==
  /\ session[u] # "closed"
  /\ pc[u] = "idle"
  /\ Abort(u)
  /\ session' = [session EXCEPT ![u] = "closed"]
  /\ \/ UNCHANGED outcome
     \/ ~committed[u] /\ outcome' = [outcome EXCEPT ![u] = "rollback"]
  /\ UNCHANGED <<dbVars, pc, arg, committed, stored, adds>>
-----------------------------------------------------------------------------
(* What the session and the database do for a pending call.                *)

Visible(u) == Overlay(db, written[u])

MustFlush(u) ==
  pc[u] \in {"adding", "querying", "committing"} /\ staged[u] # Nothing

\* The transaction that holds the row u wants to write.
Holders(u) ==
  {v \in Units \ {u} :
     \E k \in Keys : Touches(staged[u], k) /\ Touches(written[v], k)}

Blocked(u) == MustFlush(u) /\ Holders(u) # {}

Rejects(u) == \E c \in Cell : staged[u][c] \in Rejected

\* Mutant: the tables have no foreign keys.
IsDuplicate(u) ==
  \E k \in Keys :
    Touches(staged[u], k) /\ inserting[u] /\ Touches(Visible(u), k)

\* Primary and foreign keys.
Conflicts(u) ==
  \E k \in Keys :
    /\ Touches(staged[u], k)
    /\ \/ inserting[u] /\ Touches(Visible(u), k)
       \/ \E p \in Parents[k] : ~Touches(Visible(u), p)

\* Mutant: the engine commits every statement on its own.
FlushAutocommits(u) ==
  /\ MustFlush(u)
  /\ Holders(u) = {}
  /\ ~Rejects(u)
  /\ ~Conflicts(u)
  /\ db' = Overlay(db, staged[u])
  /\ staged' = [staged EXCEPT ![u] = Nothing]
  /\ inserting' = [inserting EXCEPT ![u] = FALSE]
  /\ UNCHANGED <<overtaken, written, session, pc, arg, unitVars, adds>>

Flush(u) ==
  /\ MustFlush(u)
  /\ Holders(u) = {}
  /\ ~Rejects(u)
  /\ ~Conflicts(u)
  /\ written' = [written EXCEPT ![u] = Overlay(@, staged[u])]
  /\ staged' = [staged EXCEPT ![u] = Nothing]
  /\ inserting' = [inserting EXCEPT ![u] = FALSE]
  /\ UNCHANGED <<dbVars, session, pc, arg, unitVars, adds>>

FlushFails(u) ==
  /\ MustFlush(u)
  /\ \/ Rejects(u)
     \/ Holders(u) = {} /\ Conflicts(u)
  /\ Raise(u)

\* The database breaks a cycle of waiting transactions at one of them.
DeadlockDetected(u) ==
  /\ \E cycle \in SUBSET Units :
       /\ u \in cycle
       /\ \A v \in cycle : Blocked(v)
       /\ UNION {Holders(v) : v \in cycle} = cycle
  /\ Raise(u)

\* What merge() stages for a row that it found, or did not find, like this.
Difference(found, k, row) ==
  [c \in Cell |-> IF c[1] = k /\ found[c] # row[c[2]] THEN row[c[2]] ELSE None]

\* Mutant: merge() looks at the committed row, not at the unit's own.
MergeCommitted(u) ==
  /\ pc[u] = "adding" /\ staged[u] = Nothing
  /\ staged' = [staged EXCEPT ![u] = Difference(db, arg[u].key, arg[u].row)]
  /\ inserting' = [inserting EXCEPT ![u] = ~Touches(Visible(u), arg[u].key)]
  /\ pc' = [pc EXCEPT ![u] = "idle"]
  /\ arg' = [arg EXCEPT ![u] = NoArg]
  /\ UNCHANGED <<dbVars, session, written, unitVars, adds>>

Merge(u) ==
  /\ Goto(u, "adding", "idle")
  /\ staged[u] = Nothing
  /\ staged' =
       [staged EXCEPT ![u] = Difference(Visible(u), arg[u].key, arg[u].row)]
  /\ inserting' = [inserting EXCEPT ![u] = ~Touches(Visible(u), arg[u].key)]
  /\ arg' = [arg EXCEPT ![u] = NoArg]
  /\ UNCHANGED <<dbVars, session, written, unitVars, adds>>

QueryReturns(u) ==
  /\ Goto(u, "querying", "idle")
  /\ staged[u] = Nothing
  /\ UNCHANGED <<dbVars, session, arg, workVars, unitVars, adds>>

\* COMMIT.
Store(u) ==
  /\ Goto(u, "committing", "stored")
  /\ staged[u] = Nothing
  /\ db' = Overlay(db, written[u])
  /\ written' = [written EXCEPT ![u] = Nothing]
  /\ overtaken' = overtaken \cup
       {k \in Keys : /\ Touches(written[u], k)
                     /\ \E v \in Units \ {u} : Touches(staged[v], k)}
  /\ stored' = [stored EXCEPT ![u] = TRUE]
  /\ UNCHANGED <<session, arg, staged, inserting, committed, outcome, adds>>

\* session.commit() returns.
Settle(u) ==
  /\ Goto(u, "stored", "idle")
  /\ committed' = [committed EXCEPT ![u] = TRUE]
  /\ outcome' = [outcome EXCEPT ![u] = "commit"]
  /\ UNCHANGED <<dbVars, session, arg, workVars, stored, adds>>

\* The task is cancelled at an `await`, or the connection breaks.
Interrupt(u) == pc[u] # "idle" /\ Raise(u)
-----------------------------------------------------------------------------
Call(u) ==
  \/ Enter(u)
  \/ \E k \in Keys, row \in Rows : add(u, k, row)
  \/ query(u)
  \/ commit(u)
  \/ rollback(u)
  \/ rollbackInterrupted(u)

SessionStep(u) ==
  \/ Flush(u)
  \/ FlushFails(u)
  \/ DeadlockDetected(u)
  \/ Merge(u)
  \/ QueryReturns(u)
  \/ Store(u)
  \/ Settle(u)

Next == \E u \in Units : Call(u) \/ Leave(u) \/ SessionStep(u) \/ Interrupt(u)

Spec == Init /\ [][Next]_vars

\* Calls make progress, a row lock goes to those who wait for it in turn, and
\* the body of an `async with` ends.
Fairness == \A u \in Units : SF_vars(SessionStep(u)) /\ SF_vars(Leave(u))

FairSpec == Spec /\ Fairness
=============================================================================
