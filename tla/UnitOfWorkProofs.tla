-------------------------- MODULE UnitOfWorkProofs --------------------------
(***************************************************************************)
(* Proofs about UnitOfWork and about its stand-in FakeUnitOfWork, for any  *)
(* set of units, tables, columns, values and foreign keys.                 *)
(***************************************************************************)
EXTENDS UnitOfWorkProperties, FakeUnitOfWork, TLAPS

-----------------------------------------------------------------------------
(* Contents.                                                               *)

\* The empty content has its type and touches no row.
LEMMA NothingTouchesNothing ==
  Nothing \in Contents /\ \A k \in Keys : ~Touches(Nothing, k)
BY DEF Nothing, Contents, Touches, Cell

\* Laying one content over another gives a content with the rows of both.
LEMMA OverlayKeepsRows ==
  ASSUME NEW below \in Contents, NEW above \in Contents
  PROVE  /\ Overlay(below, above) \in Contents
         /\ \A k \in Keys : Touches(Overlay(below, above), k)
                              <=> Touches(below, k) \/ Touches(above, k)
<1>1. Overlay(below, above) \in Contents
  BY DEF Overlay, Contents
<1>2. ASSUME NEW k \in Keys
      PROVE  Touches(Overlay(below, above), k) <=> Touches(below, k) \/ Touches(above, k)
  <2>1. \A col \in Columns : <<k, col>> \in Cell
    BY DEF Cell
  <2>2. \A col \in Columns :
          Overlay(below, above)[<<k, col>>] # None
            <=> below[<<k, col>>] # None \/ above[<<k, col>>] # None
    BY <2>1 DEF Overlay
  <2>3. QED  BY <2>2 DEF Touches
<1>3. QED  BY <1>1, <1>2

\* Nothing laid over a content changes nothing.
LEMMA OverlayNothing ==
  ASSUME NEW below \in Contents  PROVE  Overlay(below, Nothing) = below
BY DEF Overlay, Nothing, Contents

\* What merge() stages is a content, and concerns one row only.
LEMMA DifferenceInOneRow ==
  ASSUME NEW found \in Contents, NEW k \in Keys, NEW row \in Rows
  PROVE  /\ Difference(found, k, row) \in Contents
         /\ \A c \in Cell : Difference(found, k, row)[c] # None => c[1] = k
<1>1. row \in [Columns -> Values]
  BY RowsAssumption
<1>2. \A c \in Cell : row[c[2]] \in Values
  BY <1>1 DEF Cell
<1>3. QED  BY <1>2 DEF Difference, Contents

-----------------------------------------------------------------------------
(* Types.                                                                  *)

\* The initial state is typed.
LEMMA InitTyped == Init => UnitTypeOK
<1> SUFFICES ASSUME Init PROVE UnitTypeOK  OBVIOUS
<1>1. QED
  BY NothingTouchesNothing, MaxAddsAssumption DEF Init, UnitTypeOK

\* An aborted transaction leaves typed work.
LEMMA AbortTyped ==
  ASSUME UnitTypeOK, NEW u \in Units, Abort(u)
  PROVE  /\ staged' \in [Units -> Contents]
         /\ inserting' \in [Units -> BOOLEAN]
         /\ written' \in [Units -> Contents]
         /\ staged'[u] = Nothing /\ written'[u] = Nothing
         /\ \A v \in Units \ {u} : staged'[v] = staged[v] /\ written'[v] = written[v]
BY NothingTouchesNothing DEF UnitTypeOK, Abort

\* So does an exception.
LEMMA RaiseTyped ==
  ASSUME UnitTypeOK, NEW u \in Units, Raise(u)  PROVE  UnitTypeOK'
BY AbortTyped DEF UnitTypeOK, Raise, dbVars, unitVars

\* Every call and every step of a session keeps the types.
LEMMA NextTyped == UnitTypeOK /\ [Next]_vars => UnitTypeOK'
<1> SUFFICES ASSUME UnitTypeOK, [Next]_vars PROVE UnitTypeOK'  OBVIOUS
<1>1. CASE UNCHANGED vars
  BY <1>1 DEF UnitTypeOK, vars, dbVars, workVars, unitVars
<1>2. ASSUME NEW u \in Units, Enter(u) PROVE UnitTypeOK'
  BY <1>2 DEF UnitTypeOK, Enter, dbVars, workVars
<1>3. ASSUME NEW u \in Units, NEW k \in Keys, NEW row \in Rows, add(u, k, row)
      PROVE  UnitTypeOK'
  <2>1. [key |-> k, row |-> row] # NoArg
    BY NoneAssumption DEF NoArg
  <2>2. adds' \in 0..MaxAdds
    BY <1>3, MaxAddsAssumption DEF UnitTypeOK, add
  <2>3. QED  BY <1>3, <2>1, <2>2 DEF UnitTypeOK, add, Goto, dbVars, workVars, unitVars
<1>4. ASSUME NEW u \in Units, query(u) PROVE UnitTypeOK'
  BY <1>4 DEF UnitTypeOK, query, Goto, dbVars, workVars, unitVars
<1>5. ASSUME NEW u \in Units, commit(u) PROVE UnitTypeOK'
  BY <1>5 DEF UnitTypeOK, commit, Goto, dbVars, workVars, unitVars
<1>6. ASSUME NEW u \in Units, rollback(u) \/ rollbackInterrupted(u)
      PROVE  UnitTypeOK'
  <2>1. CASE rollback(u)
    BY <2>1, AbortTyped DEF UnitTypeOK, rollback, dbVars
  <2>2. CASE rollbackInterrupted(u)
    <3>1. Abort(u)
      BY <2>2 DEF rollbackInterrupted
    <3>2. PICK state \in {"open", "failed"} : session' = [session EXCEPT ![u] = state]
      BY <2>2 DEF rollbackInterrupted
    <3>3. pc[u] = "idle" /\ UNCHANGED <<dbVars, pc, arg, unitVars, adds>>
      BY <2>2 DEF rollbackInterrupted
    <3>4. QED
      BY <3>1, <3>2, <3>3, AbortTyped DEF UnitTypeOK, dbVars, unitVars
  <2>3. QED  BY <1>6, <2>1, <2>2
<1>7. ASSUME NEW u \in Units, Leave(u) PROVE UnitTypeOK'
  BY <1>7, AbortTyped DEF UnitTypeOK, Leave, dbVars
<1>8. ASSUME NEW u \in Units, Flush(u) PROVE UnitTypeOK'
  <2>1. Overlay(written[u], staged[u]) \in Contents
    BY OverlayKeepsRows DEF UnitTypeOK
  <2>2. session[u] = "open"
    BY <1>8 DEF UnitTypeOK, Flush, MustFlush
  <2>3. QED
    BY <1>8, <2>1, <2>2, NothingTouchesNothing
       DEF UnitTypeOK, Flush, dbVars, unitVars
<1>9. ASSUME NEW u \in Units, Merge(u) PROVE UnitTypeOK'
  <2>1. arg[u].key \in Keys /\ arg[u].row \in Rows
    BY <1>9 DEF UnitTypeOK, Merge, Goto
  <2>2. Visible(u) \in Contents
    BY OverlayKeepsRows DEF UnitTypeOK, Visible
  <2>3. Difference(Visible(u), arg[u].key, arg[u].row) \in Contents
    BY <2>1, <2>2, DifferenceInOneRow
  <2>4. Touches(Visible(u), arg[u].key) \in BOOLEAN
    BY DEF Touches
  <2>5. session[u] = "open"
    BY <1>9 DEF UnitTypeOK, Merge, Goto
  <2>6. QED
    BY <1>9, <2>3, <2>4, <2>5 DEF UnitTypeOK, Merge, Goto, dbVars, unitVars
<1>10. ASSUME NEW u \in Units, QueryReturns(u) PROVE UnitTypeOK'
  BY <1>10 DEF UnitTypeOK, QueryReturns, Goto, dbVars, workVars, unitVars
<1>11. ASSUME NEW u \in Units, Store(u) PROVE UnitTypeOK'
  <2>1. db' \in Contents
    BY <1>11, OverlayKeepsRows DEF UnitTypeOK, Store
  <2>2. session[u] = "open"
    BY <1>11 DEF UnitTypeOK, Store, Goto
  <2>3. overtaken' \subseteq Keys
    BY <1>11 DEF UnitTypeOK, Store
  <2>4. QED
    BY <1>11, <2>1, <2>2, <2>3, NothingTouchesNothing DEF UnitTypeOK, Store, Goto
<1>12. ASSUME NEW u \in Units, Settle(u) PROVE UnitTypeOK'
  BY <1>12 DEF UnitTypeOK, Settle, Goto, dbVars, workVars
<1>13. ASSUME NEW u \in Units, FlushFails(u) \/ DeadlockDetected(u) \/ Interrupt(u)
       PROVE  UnitTypeOK'
  BY <1>13, RaiseTyped DEF FlushFails, DeadlockDetected, Interrupt
<1>14. QED
  BY <1>1, <1>2, <1>3, <1>4, <1>5, <1>6, <1>7, <1>8, <1>9, <1>10, <1>11, <1>12, <1>13
     DEF Next, Call, SessionStep

\* Every variable keeps its type; a unit whose session is not open has no call
\* and no transaction.
THEOREM UnitTypeCorrect == Spec => []UnitTypeOK
BY InitTyped, NextTyped, PTL DEF Spec

-----------------------------------------------------------------------------
(* committed and the span's outcome.                                       *)

\* CommittedMeansStored, with what makes it inductive: the database has stored
\* before the session returns from its commit.
StoredInv ==
  /\ CommittedMeansStored
  /\ \A u \in Units : pc[u] = "stored" => stored[u]

\* Initially no unit says anything.
LEMMA StoredInit == Init => StoredInv
BY DEF Init, StoredInv, CommittedMeansStored

\* Each step sets `committed` and the outcome only after the database stored,
\* and forgets them with every boundary that forgets the commit.
LEMMA StoredNext == UnitTypeOK /\ StoredInv /\ [Next]_vars => StoredInv'
<1> SUFFICES ASSUME UnitTypeOK, StoredInv, [Next]_vars PROVE StoredInv'
  OBVIOUS
<1> USE DEF StoredInv, CommittedMeansStored
<1>1. CASE UNCHANGED vars
  BY <1>1 DEF vars, unitVars
<1>2. ASSUME NEW u \in Units, Enter(u) PROVE StoredInv'
  <2>1. pc[u] = "idle"
    BY <1>2 DEF UnitTypeOK, Enter
  <2>2. QED  BY <1>2, <2>1 DEF UnitTypeOK, Enter
<1>3. ASSUME NEW u \in Units, NEW k \in Keys, NEW row \in Rows, add(u, k, row)
      PROVE  StoredInv'
  BY <1>3 DEF UnitTypeOK, add, Goto, unitVars
<1>4. ASSUME NEW u \in Units, query(u) \/ commit(u) PROVE StoredInv'
  BY <1>4 DEF UnitTypeOK, query, commit, Goto, unitVars
<1>5. ASSUME NEW u \in Units, rollback(u) \/ rollbackInterrupted(u)
      PROVE  StoredInv'
  BY <1>5 DEF UnitTypeOK, rollback, rollbackInterrupted, unitVars
<1>6. ASSUME NEW u \in Units, Leave(u) PROVE StoredInv'
  BY <1>6 DEF UnitTypeOK, Leave
<1>7. ASSUME NEW u \in Units, Flush(u) \/ Merge(u) \/ QueryReturns(u)
      PROVE  StoredInv'
  BY <1>7 DEF UnitTypeOK, Flush, Merge, QueryReturns, Goto, unitVars
<1>8. ASSUME NEW u \in Units, Store(u) PROVE StoredInv'
  BY <1>8 DEF UnitTypeOK, Store, Goto
<1>9. ASSUME NEW u \in Units, Settle(u) PROVE StoredInv'
  BY <1>9 DEF UnitTypeOK, Settle, Goto
<1>10. ASSUME NEW u \in Units, FlushFails(u) \/ DeadlockDetected(u) \/ Interrupt(u)
       PROVE  StoredInv'
  <2>1. Raise(u)
    BY <1>10 DEF FlushFails, DeadlockDetected, Interrupt
  <2>2. QED  BY <2>1 DEF UnitTypeOK, Raise, unitVars
<1>11. QED
  BY <1>1, <1>2, <1>3, <1>4, <1>5, <1>6, <1>7, <1>8, <1>9, <1>10
     DEF Next, Call, SessionStep

\* A unit that says it has committed, has.
THEOREM CommittedAlwaysStored == Spec => []CommittedMeansStored
<1>1. StoredInv => CommittedMeansStored
  BY DEF StoredInv
<1>2. QED
  BY <1>1, StoredInit, StoredNext, UnitTypeCorrect, PTL DEF Spec

-----------------------------------------------------------------------------
(* Foreign keys.                                                           *)

\* Every row in `content` has the rows it refers to.
Closed(content) ==
  \A k \in Keys : Touches(content, k) => \A p \in Parents[k] : Touches(content, p)

\* What each unit sees is closed: this, and not that the database is, is what
\* the database checks when a unit writes.
ClosedInv == Closed(db) /\ \A u \in Units : Closed(Visible(u))

\* Laying closed views of one database together gives a closed content.
LEMMA ClosedOverlay ==
  ASSUME NEW below \in Contents, NEW a \in Contents, NEW b \in Contents,
         Closed(Overlay(below, a)), Closed(Overlay(below, b))
  PROVE  Closed(Overlay(Overlay(below, a), b))
<1>1. Overlay(below, a) \in Contents
  BY OverlayKeepsRows
<1>2. \A k \in Keys : /\ Touches(Overlay(below, a), k)
                           <=> Touches(below, k) \/ Touches(a, k)
                      /\ Touches(Overlay(below, b), k)
                           <=> Touches(below, k) \/ Touches(b, k)
                      /\ Touches(Overlay(Overlay(below, a), b), k)
                           <=> Touches(below, k) \/ Touches(a, k) \/ Touches(b, k)
  BY <1>1, OverlayKeepsRows
<1>3. \A k \in Keys : Parents[k] \subseteq Keys
  BY ParentsAssumption
<1>4. QED  BY <1>2, <1>3 DEF Closed

\* If neither the database nor what the units wrote changes, nor closedness.
LEMMA ClosedStutter ==
  ASSUME ClosedInv, db' = db, written' = written  PROVE  ClosedInv'
<1>1. Closed(db)' /\ \A u \in Units : Closed(Visible(u)')
  BY DEF ClosedInv, Visible, Closed
<1>2. QED  BY <1>1 DEF ClosedInv, Closed

\* An aborted transaction sees the database again.
LEMMA ClosedAbort ==
  ASSUME UnitTypeOK, ClosedInv, NEW u \in Units, Abort(u), db' = db
  PROVE  ClosedInv'
<1>1. \A v \in Units : Visible(v)' = IF v = u THEN db ELSE Visible(v)
  BY OverlayNothing DEF UnitTypeOK, Abort, Visible
<1>2. Closed(db)' /\ \A v \in Units : Closed(Visible(v)')
  BY <1>1 DEF ClosedInv, Closed
<1>3. QED  BY <1>2 DEF ClosedInv, Closed

\* The initial contents are empty.
LEMMA ClosedInit == Init => ClosedInv
<1> SUFFICES ASSUME Init PROVE ClosedInv  OBVIOUS
<1>1. db = Nothing /\ \A u \in Units : Visible(u) = Nothing
  BY NothingTouchesNothing, OverlayNothing DEF Init, Visible
<1>2. QED  BY <1>1, NothingTouchesNothing DEF ClosedInv, Closed

\* A flush adds a row whose parents its unit sees; a commit makes the view of
\* its unit the database.
LEMMA ClosedNext == UnitTypeOK /\ ClosedInv /\ [Next]_vars => ClosedInv'
<1> SUFFICES ASSUME UnitTypeOK, ClosedInv, [Next]_vars PROVE ClosedInv'
  OBVIOUS
<1>1. CASE UNCHANGED vars
  BY <1>1, ClosedStutter DEF vars, dbVars, workVars
<1>2. ASSUME NEW u \in Units, Enter(u) \/ query(u) \/ commit(u) PROVE ClosedInv'
  BY <1>2, ClosedStutter DEF Enter, query, commit, dbVars, workVars
<1>3. ASSUME NEW u \in Units, NEW k \in Keys, NEW row \in Rows, add(u, k, row)
      PROVE  ClosedInv'
  BY <1>3, ClosedStutter DEF add, dbVars, workVars
<1>4. ASSUME NEW u \in Units, rollback(u) \/ rollbackInterrupted(u) \/ Leave(u)
      PROVE  ClosedInv'
  BY <1>4, ClosedAbort DEF rollback, rollbackInterrupted, Leave, dbVars
<1>5. ASSUME NEW u \in Units, Flush(u) PROVE ClosedInv'
  <2> DEFINE now == Overlay(written[u], staged[u])
  <2>1. db \in Contents /\ written[u] \in Contents /\ staged[u] \in Contents
    BY DEF UnitTypeOK
  <2>2. \A k \in Keys : Touches(staged[u], k) =>
          \A p \in Parents[k] : Touches(Visible(u), p)
    BY <1>5 DEF Flush, Conflicts
  <2>3. now \in Contents /\ \A k \in Keys :
          Touches(Overlay(db, now), k) <=> Touches(Visible(u), k) \/ Touches(staged[u], k)
    BY <2>1, OverlayKeepsRows DEF Visible
  <2>4. Closed(Overlay(db, now))
    <3>1. \A k \in Keys : Parents[k] \subseteq Keys
      BY ParentsAssumption
    <3>2. Closed(Visible(u))
      BY DEF ClosedInv
    <3>3. QED  BY <2>2, <2>3, <3>1, <3>2 DEF Closed
  <2>5. db' = db /\ \A v \in Units :
          Visible(v)' = IF v = u THEN Overlay(db, now) ELSE Visible(v)
    BY <1>5 DEF UnitTypeOK, Flush, Visible, dbVars
  <2>6. Closed(db)' /\ \A v \in Units : Closed(Visible(v)')
    BY <2>4, <2>5 DEF ClosedInv, Closed
  <2>7. QED  BY <2>6 DEF ClosedInv, Closed
<1>6. ASSUME NEW u \in Units, Store(u) PROVE ClosedInv'
  <2>1. db \in Contents /\ \A v \in Units : written[v] \in Contents
    BY DEF UnitTypeOK
  <2>2. db' = Visible(u)
    BY <1>6 DEF Store, Visible
  <2>3. ASSUME NEW v \in Units PROVE Closed(Visible(v)')
    <3>1. CASE v = u
      <4>1. Visible(u) \in Contents
        BY <2>1, OverlayKeepsRows DEF Visible
      <4>2. Visible(v)' = Visible(u)
        BY <1>6, <2>2, <3>1, <4>1, OverlayNothing DEF UnitTypeOK, Store, Visible
      <4>3. QED  BY <4>2 DEF ClosedInv
    <3>2. CASE v # u
      <4>1. Visible(v)' = Overlay(Overlay(db, written[u]), written[v])
        BY <1>6, <2>2, <3>2 DEF UnitTypeOK, Store, Visible
      <4>2. Closed(Overlay(db, written[u])) /\ Closed(Overlay(db, written[v]))
        BY DEF ClosedInv, Visible
      <4>3. QED  BY <2>1, <4>1, <4>2, ClosedOverlay
    <3>3. QED  BY <3>1, <3>2
  <2>4. Closed(db)'
    BY <2>2 DEF ClosedInv, Closed
  <2>5. QED  BY <2>3, <2>4 DEF ClosedInv, Closed
<1>7. ASSUME NEW u \in Units, Merge(u) \/ QueryReturns(u) \/ Settle(u)
      PROVE  ClosedInv'
  BY <1>7, ClosedStutter DEF Merge, QueryReturns, Settle, dbVars, workVars
<1>8. ASSUME NEW u \in Units, FlushFails(u) \/ DeadlockDetected(u) \/ Interrupt(u)
      PROVE  ClosedInv'
  BY <1>8, ClosedAbort DEF FlushFails, DeadlockDetected, Interrupt, Raise, dbVars
<1>9. QED
  BY <1>1, <1>2, <1>3, <1>4, <1>5, <1>6, <1>7, <1>8 DEF Next, Call, SessionStep

\* Whatever is committed has what it refers to.
THEOREM ReferencesAlwaysHold == Spec => []ReferencesHold
<1>1. ClosedInv => ReferencesHold
  BY DEF ClosedInv, Closed, ReferencesHold
<1>2. QED
  BY <1>1, ClosedInit, ClosedNext, UnitTypeCorrect, PTL DEF Spec

-----------------------------------------------------------------------------
(* Rows that callers added.                                                *)

\* A content that does not touch a row leaves it as it is below, and what is
\* below decides nothing else.
LEMMA OverlayRow ==
  ASSUME NEW a \in Contents, NEW b \in Contents, NEW above \in Contents, NEW k \in Keys
  PROVE  /\ ~Touches(above, k) => Row(Overlay(a, above), k) = Row(a, k)
         /\ Row(a, k) = Row(b, k) => Row(Overlay(a, above), k) = Row(Overlay(b, above), k)
<1>1. \A col \in Columns : <<k, col>> \in Cell
  BY DEF Cell
<1>2. ASSUME ~Touches(above, k)
      PROVE  Row(Overlay(a, above), k) = Row(a, k)
  <2>1. \A col \in Columns : Overlay(a, above)[<<k, col>>] = a[<<k, col>>]
    BY <1>1, <1>2 DEF Overlay, Touches
  <2>2. QED  BY <2>1 DEF Row
<1>3. ASSUME Row(a, k) = Row(b, k)
      PROVE  Row(Overlay(a, above), k) = Row(Overlay(b, above), k)
  <2>1. \A col \in Columns : a[<<k, col>>] = b[<<k, col>>]
    <3>1. \A col \in Columns : Row(a, k)[col] = a[<<k, col>>] /\ Row(b, k)[col] = b[<<k, col>>]
      BY DEF Row
    <3>2. QED  BY <1>3, <3>1
  <2>2. \A col \in Columns : Overlay(a, above)[<<k, col>>] = Overlay(b, above)[<<k, col>>]
    BY <1>1, <2>1 DEF Overlay
  <2>3. QED  BY <2>2 DEF Row
<1>4. QED  BY <1>2, <1>3

\* Contents can be laid over each other in any grouping.
LEMMA OverlayAssociates ==
  ASSUME NEW a \in Contents, NEW b \in Contents, NEW c \in Contents
  PROVE  Overlay(a, Overlay(b, c)) = Overlay(Overlay(a, b), c)
BY DEF Overlay, Contents

\* With what merge() stages, a row is the one that was added.
LEMMA DifferenceGivesRow ==
  ASSUME NEW found \in Contents, NEW k \in Keys, NEW row \in Rows
  PROVE  Row(Overlay(found, Difference(found, k, row)), k) = row
<1>1. row \in [Columns -> Values]
  BY RowsAssumption
<1>2. ASSUME NEW col \in Columns
      PROVE  Overlay(found, Difference(found, k, row))[<<k, col>>] = row[col]
  <2>1. <<k, col>> \in Cell /\ row[col] # None
    BY <1>1, NoneAssumption DEF Cell
  <2>2. Difference(found, k, row)[<<k, col>>]
          = IF found[<<k, col>>] # row[col] THEN row[col] ELSE None
    BY <2>1 DEF Difference
  <2>3. QED  BY <2>1, <2>2 DEF Overlay
<1>3. QED  BY <1>1, <1>2 DEF Row

\* Two transactions never write one row, and outside the overtaken rows what is
\* committed, what a unit has written and what it has staged are whole rows.
AddedInv ==
  /\ \A u, v \in Units, k \in Keys :
       Touches(written[u], k) /\ Touches(written[v], k) => u = v
  /\ \A k \in Keys \ overtaken :
       /\ Touches(db, k) => Row(db, k) \in Rows
       /\ \A u \in Units :
            /\ Touches(written[u], k) => Row(Visible(u), k) \in Rows
            /\ Touches(staged[u], k) => Row(Overlay(Visible(u), staged[u]), k) \in Rows

\* No unit has written a row at first.
LEMMA AddedInit == Init => AddedInv
BY NothingTouchesNothing DEF Init, AddedInv

\* A step that changes no content keeps the invariant.
LEMMA AddedStutter ==
  ASSUME AddedInv, UNCHANGED <<db, overtaken, written, staged>>
  PROVE  AddedInv'
<1>1. \A u \in Units : Visible(u)' = Visible(u)
  BY DEF Visible
<1>2. QED  BY <1>1 DEF AddedInv

\* So does an aborted transaction.
LEMMA AddedAbort ==
  ASSUME UnitTypeOK, AddedInv, NEW u \in Units, Abort(u), UNCHANGED dbVars
  PROVE  AddedInv'
<1>1. /\ \A k \in Keys : ~Touches(staged'[u], k) /\ ~Touches(written'[u], k)
      /\ \A v \in Units \ {u} : staged'[v] = staged[v] /\ written'[v] = written[v]
  BY AbortTyped, NothingTouchesNothing
<1>2. db' = db /\ overtaken' = overtaken
  BY DEF dbVars
<1>3. \A v \in Units \ {u} : Visible(v)' = Visible(v)
  BY <1>1, <1>2 DEF Visible
<1>4. ASSUME NEW v \in Units, NEW w \in Units, NEW k \in Keys,
             Touches(written'[v], k), Touches(written'[w], k)
      PROVE  v = w
  BY <1>1, <1>4 DEF AddedInv
<1>5. ASSUME NEW k \in Keys \ overtaken, NEW v \in Units
      PROVE  /\ Touches(written'[v], k) => Row(Visible(v)', k) \in Rows
             /\ Touches(staged'[v], k) => Row(Overlay(Visible(v)', staged'[v]), k) \in Rows
  BY <1>1, <1>3 DEF AddedInv
<1>6. \A k \in Keys \ overtaken : Touches(db', k) => Row(db', k) \in Rows
  BY <1>2 DEF AddedInv
<1>7. QED  BY <1>2, <1>4, <1>5, <1>6 DEF AddedInv

\* merge() stages the difference to the row that was added.
LEMMA AddedMerge ==
  ASSUME UnitTypeOK, AddedInv, NEW u \in Units, Merge(u)
  PROVE  AddedInv'
<1> DEFINE key == arg[u].key
           row == arg[u].row
           change == Difference(Visible(u), key, row)
<1>1. key \in Keys /\ row \in Rows
  BY DEF UnitTypeOK, Merge, Goto
<1>2. Visible(u) \in Contents
  BY OverlayKeepsRows DEF UnitTypeOK, Visible
<1>3. /\ db' = db /\ overtaken' = overtaken /\ written' = written
      /\ staged' = [staged EXCEPT ![u] = change]
  BY DEF Merge, dbVars
<1>4. \A v \in Units : Visible(v)' = Visible(v)
  BY <1>3 DEF Visible
<1>5. ASSUME NEW k \in Keys, Touches(change, k)
      PROVE  Row(Overlay(Visible(u), change), k) \in Rows
  <2>1. k = key
    BY <1>1, <1>2, <1>5, DifferenceInOneRow DEF Touches, Cell
  <2>2. QED  BY <1>1, <1>2, <2>1, DifferenceGivesRow
<1> HIDE DEF change
<1>6. ASSUME NEW k \in Keys \ overtaken, NEW v \in Units, Touches(staged'[v], k)
      PROVE  Row(Overlay(Visible(v), staged'[v]), k) \in Rows
  <2>1. staged'[v] = IF v = u THEN change ELSE staged[v]
    BY <1>3 DEF UnitTypeOK
  <2>2. QED  BY <1>5, <1>6, <2>1 DEF AddedInv
<1>7. QED  BY <1>3, <1>4, <1>6 DEF AddedInv

\* A flush writes what was staged, to rows that no other transaction has.
LEMMA AddedFlush ==
  ASSUME UnitTypeOK, AddedInv, NEW u \in Units, Flush(u)
  PROVE  AddedInv'
<1> DEFINE now == Overlay(written[u], staged[u])
<1>1. db \in Contents /\ written[u] \in Contents /\ staged[u] \in Contents
  BY DEF UnitTypeOK
<1>2. \A k \in Keys : Touches(now, k) <=> Touches(written[u], k) \/ Touches(staged[u], k)
  BY <1>1, OverlayKeepsRows
<1>3. Overlay(db, now) = Overlay(Visible(u), staged[u])
  BY <1>1, OverlayAssociates DEF Visible
<1>4. /\ db' = db /\ overtaken' = overtaken
      /\ written'[u] = now /\ staged'[u] = Nothing
      /\ \A v \in Units \ {u} : written'[v] = written[v] /\ staged'[v] = staged[v]
  BY DEF UnitTypeOK, Flush, dbVars
<1>5. /\ Visible(u)' = Overlay(Visible(u), staged[u])
      /\ \A v \in Units \ {u} : Visible(v)' = Visible(v)
  BY <1>3, <1>4 DEF Visible
<1>6. \A k \in Keys : ~Touches(staged'[u], k)
  BY <1>4, NothingTouchesNothing
<1>7. \A v \in Units \ {u}, k \in Keys : ~(Touches(staged[u], k) /\ Touches(written[v], k))
  BY DEF Flush, Holders
<1> HIDE DEF now
<1>8. ASSUME NEW v \in Units, NEW w \in Units, NEW k \in Keys,
             Touches(written'[v], k), Touches(written'[w], k)
      PROVE  v = w
  BY <1>2, <1>4, <1>7, <1>8 DEF AddedInv
<1>9. ASSUME NEW k \in Keys \ overtaken
      PROVE  Touches(written'[u], k) => Row(Visible(u)', k) \in Rows
  <2>1. CASE Touches(staged[u], k)
    BY <1>5, <2>1 DEF AddedInv
  <2>2. CASE ~Touches(staged[u], k)
    <3>1. Visible(u) \in Contents
      BY <1>1, OverlayKeepsRows DEF Visible
    <3>2. Row(Visible(u)', k) = Row(Visible(u), k)
      BY <1>1, <1>5, <2>2, <3>1, OverlayRow
    <3>3. QED  BY <1>2, <1>4, <2>2, <3>2 DEF AddedInv
  <2>3. QED  BY <2>1, <2>2
<1>10. ASSUME NEW k \in Keys \ overtaken, NEW v \in Units
       PROVE  /\ Touches(written'[v], k) => Row(Visible(v)', k) \in Rows
              /\ Touches(staged'[v], k) => Row(Overlay(Visible(v)', staged'[v]), k) \in Rows
  BY <1>4, <1>5, <1>6, <1>9 DEF AddedInv
<1>11. \A k \in Keys \ overtaken : Touches(db', k) => Row(db', k) \in Rows
  BY <1>4 DEF AddedInv
<1>12. QED  BY <1>4, <1>8, <1>10, <1>11 DEF AddedInv

\* COMMIT changes the rows that its transaction wrote; no other one wrote them,
\* and those that another one has staged are overtaken.
LEMMA AddedStore ==
  ASSUME UnitTypeOK, AddedInv, NEW u \in Units, Store(u)
  PROVE  AddedInv'
<1>1. db \in Contents /\ \A v \in Units : written[v] \in Contents /\ staged[v] \in Contents
  BY DEF UnitTypeOK
<1>2. /\ db' = Visible(u) /\ db' \in Contents
      /\ staged' = staged /\ staged[u] = Nothing
      /\ written'[u] = Nothing
      /\ \A v \in Units \ {u} : written'[v] = written[v]
  BY <1>1, OverlayKeepsRows DEF UnitTypeOK, Store, Visible
<1>3. \A k \in Keys : ~Touches(written'[u], k) /\ ~Touches(staged[u], k)
  BY <1>2, NothingTouchesNothing
<1>4. ASSUME NEW v \in Units, NEW w \in Units, NEW k \in Keys,
             Touches(written'[v], k), Touches(written'[w], k)
      PROVE  v = w
  BY <1>2, <1>3, <1>4 DEF AddedInv
<1>5. ASSUME NEW k \in Keys, k \notin overtaken'
      PROVE  /\ k \notin overtaken
             /\ Touches(written[u], k) => \A v \in Units \ {u} : ~Touches(staged[v], k)
  BY <1>5 DEF Store
<1>6. ASSUME NEW k \in Keys, ~Touches(written[u], k)
      PROVE  Row(db', k) = Row(db, k)
  BY <1>1, <1>2, <1>6, OverlayRow DEF Visible
<1>7. ASSUME NEW k \in Keys, k \notin overtaken', Touches(db', k)
      PROVE  Row(db', k) \in Rows
  <2>1. CASE Touches(written[u], k)
    BY <1>2, <1>5, <1>7, <2>1 DEF AddedInv
  <2>2. CASE ~Touches(written[u], k)
    <3>1. Touches(db, k)
      BY <1>1, <1>2, <1>7, <2>2, OverlayKeepsRows DEF Visible
    <3>2. QED  BY <1>5, <1>6, <1>7, <2>2, <3>1 DEF AddedInv
  <2>3. QED  BY <2>1, <2>2
<1>8. ASSUME NEW k \in Keys, k \notin overtaken', NEW v \in Units \ {u},
             Touches(written[v], k) \/ Touches(staged[v], k)
      PROVE  /\ Row(Visible(v)', k) = Row(Visible(v), k)
             /\ Row(Overlay(Visible(v)', staged[v]), k) = Row(Overlay(Visible(v), staged[v]), k)
  <2>1. ~Touches(written[u], k)
    BY <1>5, <1>8 DEF AddedInv
  <2>2. Visible(v)' = Overlay(db', written[v])
    BY <1>2 DEF Visible
  <2>3. Row(Visible(v)', k) = Row(Visible(v), k)
    BY <1>1, <1>2, <1>6, <2>1, <2>2, OverlayRow DEF Visible
  <2>4. Visible(v)' \in Contents /\ Visible(v) \in Contents
    BY <1>1, <1>2, <2>2, OverlayKeepsRows DEF Visible
  <2>5. QED  BY <1>1, <2>3, <2>4, OverlayRow
<1>9. ASSUME NEW k \in Keys, k \notin overtaken', NEW v \in Units
      PROVE  /\ Touches(written'[v], k) => Row(Visible(v)', k) \in Rows
             /\ Touches(staged[v], k) => Row(Overlay(Visible(v)', staged[v]), k) \in Rows
  BY <1>2, <1>3, <1>5, <1>8, <1>9 DEF AddedInv
<1>10. QED  BY <1>2, <1>4, <1>7, <1>9 DEF AddedInv

\* Every other step changes no content or aborts a transaction.
LEMMA AddedNext == UnitTypeOK /\ AddedInv /\ [Next]_vars => AddedInv'
<1> SUFFICES ASSUME UnitTypeOK, AddedInv, [Next]_vars PROVE AddedInv'
  OBVIOUS
<1>1. CASE UNCHANGED vars
  BY <1>1, AddedStutter DEF vars, dbVars, workVars
<1>2. ASSUME NEW u \in Units, Enter(u) \/ query(u) \/ commit(u) PROVE AddedInv'
  BY <1>2, AddedStutter DEF Enter, query, commit, dbVars, workVars
<1>3. ASSUME NEW u \in Units, NEW k \in Keys, NEW row \in Rows, add(u, k, row)
      PROVE  AddedInv'
  BY <1>3, AddedStutter DEF add, dbVars, workVars
<1>4. ASSUME NEW u \in Units, rollback(u) \/ rollbackInterrupted(u) \/ Leave(u)
      PROVE  AddedInv'
  BY <1>4, AddedAbort DEF rollback, rollbackInterrupted, Leave
<1>5. ASSUME NEW u \in Units, QueryReturns(u) \/ Settle(u) PROVE AddedInv'
  BY <1>5, AddedStutter DEF QueryReturns, Settle, dbVars, workVars
<1>6. ASSUME NEW u \in Units, FlushFails(u) \/ DeadlockDetected(u) \/ Interrupt(u)
      PROVE  AddedInv'
  BY <1>6, AddedAbort DEF FlushFails, DeadlockDetected, Interrupt, Raise
<1>7. QED
  BY <1>1, <1>2, <1>3, <1>4, <1>5, <1>6, AddedMerge, AddedFlush, AddedStore
     DEF Next, Call, SessionStep

\* A committed row that was not overtaken is one that a caller added.
THEOREM RowsAlwaysAsAdded == Spec => []RowsAsAdded
<1>1. UnitTypeOK /\ AddedInv => RowsAsAdded
  BY DEF AddedInv, RowsAsAdded
<1>2. QED
  BY <1>1, AddedInit, AddedNext, UnitTypeCorrect, PTL DEF Spec

-----------------------------------------------------------------------------
(* Refinement.                                                             *)

\* Between two flushes at most one row is staged.
OneRowStaged ==
  \A u \in Units : \A c, d \in Cell :
    staged[u][c] # None /\ staged[u][d] # None => c[1] = d[1]

\* Nothing is staged initially.
LEMMA OneRowInit == Init => OneRowStaged
BY DEF Init, OneRowStaged, Nothing

\* If the change of one unit at most is replaced, by none or by one to one row,
\* this stays so.
LEMMA OneRowKept ==
  ASSUME UnitTypeOK, OneRowStaged, NEW u \in Units, NEW change,
         \A c, d \in Cell : change[c] # None /\ change[d] # None => c[1] = d[1],
         staged' = [staged EXCEPT ![u] = change]
  PROVE  OneRowStaged'
BY DEF UnitTypeOK, OneRowStaged

\* merge() runs only when nothing is staged, and stages one row.
LEMMA OneRowNext == UnitTypeOK /\ OneRowStaged /\ [Next]_vars => OneRowStaged'
<1> SUFFICES ASSUME UnitTypeOK, OneRowStaged, [Next]_vars PROVE OneRowStaged'
  OBVIOUS
<1>1. \A c, d \in Cell :
        Nothing[c] # None /\ Nothing[d] # None => c[1] = d[1]
  BY DEF Nothing
<1>2. CASE staged' = staged
  BY <1>2 DEF OneRowStaged
<1>3. ASSUME NEW u \in Units, staged' = [staged EXCEPT ![u] = Nothing]
      PROVE  OneRowStaged'
  BY <1>1, <1>3, OneRowKept
<1>4. ASSUME NEW u \in Units, Merge(u) PROVE OneRowStaged'
  <2>1. arg[u].key \in Keys /\ arg[u].row \in Rows
    BY <1>4 DEF UnitTypeOK, Merge, Goto
  <2>2. Visible(u) \in Contents
    BY OverlayKeepsRows DEF UnitTypeOK, Visible
  <2>3. \A c \in Cell :
          Difference(Visible(u), arg[u].key, arg[u].row)[c] # None => c[1] = arg[u].key
    BY <2>1, <2>2, DifferenceInOneRow
  <2> DEFINE change == Difference(Visible(u), arg[u].key, arg[u].row)
  <2>4. staged' = [staged EXCEPT ![u] = change]
    BY <1>4 DEF Merge
  <2> HIDE DEF change
  <2>5. \A c, d \in Cell : change[c] # None /\ change[d] # None => c[1] = d[1]
    BY <2>3 DEF change
  <2>6. QED  BY <2>4, <2>5, OneRowKept
<1>5. QED
  BY <1>2, <1>3, <1>4
     DEF Next, Call, SessionStep, vars, workVars, Enter, add, query, commit, rollback,
         rollbackInterrupted, Leave, Flush, FlushFails, DeadlockDetected, QueryReturns, Store, Settle,
         Interrupt, Raise, Abort

\* The initial state is one of the store.
LEMMA InitRefines == Init => TheStore!StoreInit
BY DEF Init, TheStore!StoreInit, TheStore!Nothing, Nothing, TheStore!Cell, Cell

\* The end of a transaction without a commit discards its changes.
LEMMA AbortRefines ==
  ASSUME NEW u \in Units, Abort(u), db' = db
  PROVE  TheStore!StoreNext
BY DEF Abort, TheStore!StoreNext, TheStore!Discard, TheStore!Nothing, Nothing,
       TheStore!Cell, Cell

\* A flush is a change of one row that no other transaction has changed; COMMIT
\* commits; aborts discard; all else leaves the store alone.
LEMMA NextRefines ==
  UnitTypeOK /\ OneRowStaged /\ [Next]_vars
    => [TheStore!StoreNext]_(TheStore!storeVars)
<1> SUFFICES ASSUME UnitTypeOK, OneRowStaged, [Next]_vars
             PROVE  [TheStore!StoreNext]_(TheStore!storeVars)
  OBVIOUS
<1> USE DEF TheStore!storeVars
<1>1. CASE UNCHANGED vars
  BY <1>1 DEF vars, dbVars, workVars
<1>2. ASSUME NEW u \in Units, Enter(u) \/ query(u) \/ commit(u)
      PROVE  UNCHANGED <<db, written>>
  BY <1>2 DEF Enter, query, commit, dbVars, workVars
<1>3. ASSUME NEW u \in Units, NEW k \in Keys, NEW row \in Rows, add(u, k, row)
      PROVE  UNCHANGED <<db, written>>
  BY <1>3 DEF add, dbVars, workVars
<1>4. ASSUME NEW u \in Units, rollback(u) \/ rollbackInterrupted(u) \/ Leave(u)
      PROVE  TheStore!StoreNext
  BY <1>4, AbortRefines DEF rollback, rollbackInterrupted, Leave, dbVars
<1>5. ASSUME NEW u \in Units, Flush(u) PROVE TheStore!StoreNext
  <2>1. staged[u] \in [Cell -> Values \cup {None}] /\ staged[u] # Nothing
    BY <1>5 DEF UnitTypeOK, Flush, MustFlush, Contents
  <2>2. PICK c \in Cell : staged[u][c] # None
    BY <2>1 DEF Nothing
  <2>3. PICK k \in Keys, col \in Columns : c = <<k, col>>
    BY DEF Cell
  <2> DEFINE change == [q \in Columns |-> staged[u][<<k, q>>]]
  <2>4. change \in [Columns -> Values \cup {None}]
    BY <2>1 DEF Cell
  <2>5. [d \in Cell |-> IF d[1] = k THEN change[d[2]] ELSE None] = staged[u]
    <3>1. ASSUME NEW d \in Cell
          PROVE  (IF d[1] = k THEN change[d[2]] ELSE None) = staged[u][d]
      <4>1. d = <<d[1], d[2]>> /\ d[2] \in Columns
        BY DEF Cell
      <4>2. CASE d[1] = k
        BY <4>1, <4>2
      <4>3. CASE d[1] # k
        BY <2>2, <2>3, <4>3 DEF OneRowStaged
      <4>4. QED  BY <4>2, <4>3
    <3>2. QED  BY <2>1, <3>1
  <2>6. Touches(staged[u], k)
    BY <2>2, <2>3 DEF Touches
  <2>7. \A v \in Units \ {u} : ~Touches(written[v], k)
    BY <1>5, <2>6 DEF Flush, Holders
  <2>8. TheStore!Change(u, k, change)
    <3>1. \A v \in Units \ {u} : ~TheStore!Touches(written[v], k)
      BY <2>7 DEF TheStore!Touches, Touches
    <3>2. [d \in TheStore!Cell |-> IF d[1] = k THEN change[d[2]] ELSE None] = staged[u]
      BY <2>5 DEF TheStore!Cell, Cell
    <3>3. TheStore!Overlay(written[u], staged[u]) = Overlay(written[u], staged[u])
      BY DEF TheStore!Overlay, Overlay, TheStore!Cell, Cell
    <3> HIDE DEF change
    <3>4. written' = [written EXCEPT ![u] = Overlay(@, staged[u])] /\ db' = db
      BY <1>5 DEF Flush, dbVars
    <3>5. QED  BY <3>1, <3>2, <3>3, <3>4 DEF TheStore!Change
  <2>9. QED  BY <2>4, <2>8 DEF TheStore!StoreNext
<1>6. ASSUME NEW u \in Units, Store(u) PROVE TheStore!StoreNext
  BY <1>6 DEF Store, TheStore!StoreNext, TheStore!CommitChanges, TheStore!Overlay,
              Overlay, TheStore!Nothing, Nothing, TheStore!Cell, Cell
<1>7. ASSUME NEW u \in Units, Merge(u) \/ QueryReturns(u) \/ Settle(u)
      PROVE  UNCHANGED <<db, written>>
  BY <1>7 DEF Merge, QueryReturns, Settle, dbVars, workVars
<1>8. ASSUME NEW u \in Units, FlushFails(u) \/ DeadlockDetected(u) \/ Interrupt(u)
      PROVE  TheStore!StoreNext
  BY <1>8, AbortRefines DEF FlushFails, DeadlockDetected, Interrupt, Raise, dbVars
<1>9. QED
  BY <1>1, <1>2, <1>3, <1>4, <1>5, <1>6, <1>7, <1>8 DEF Next, Call, SessionStep

\* The unit of work implements the transactional store.
THEOREM UnitOfWorkImplementsStore == Spec => TransactionalStoreSpec
<1>1. Spec => []OneRowStaged
  BY OneRowInit, OneRowNext, UnitTypeCorrect, PTL DEF Spec
<1>2. QED
  BY <1>1, InitRefines, NextRefines, UnitTypeCorrect, PTL
     DEF Spec, TransactionalStoreSpec, TheStore!StoreSpec

-----------------------------------------------------------------------------
(* The fake unit of work implements the same store.                       *)

\* The clone is what is committed with the rows added to it, which have all
\* their values; outside a block nothing is added.
CloneInv ==
  /\ _committed \in Contents
  /\ _working \in Contents
  /\ active \in BOOLEAN
  /\ added \subseteq Keys
  /\ ~active => added = {}
  /\ active => \A c \in Cell : IF c[1] \in added THEN _working[c] # None
                               ELSE _working[c] = _committed[c]

\* No unit is active at first.
LEMMA CloneInit == FakeUnitInit => CloneInv
BY DEF FakeUnitInit, CloneInv, Contents, Nothing

\* What add() leaves in the clone: the row whole, the others as they were.
LEMMA ReplacedRow ==
  ASSUME CloneInv, NEW k \in Keys, NEW row \in Rows
  PROVE  /\ Replaced(k, row) \in Contents
         /\ \A c \in Cell : /\ c[1] = k => Replaced(k, row)[c] = row[c[2]]
                            /\ c[1] # k => Replaced(k, row)[c] = _working[c]
         /\ \A c \in Cell : row[c[2]] \in Values /\ row[c[2]] # None
<1>1. row \in [Columns -> Values]
  BY RowsAssumption
<1>2. \A c \in Cell : row[c[2]] \in Values /\ row[c[2]] # None
  BY <1>1, NoneAssumption DEF Cell
<1>3. QED  BY <1>2 DEF Replaced, CloneInv, Contents

\* Every step keeps the clone equal to the store but for what was added.
LEMMA CloneNext == CloneInv /\ [FakeUnitNext]_fakeUnitVars => CloneInv'
<1> SUFFICES ASSUME CloneInv, [FakeUnitNext]_fakeUnitVars PROVE CloneInv'
  OBVIOUS
<1>1. CASE UNCHANGED fakeUnitVars
  BY <1>1 DEF CloneInv, fakeUnitVars
<1>2. CASE __aenter__
  BY <1>2 DEF CloneInv, __aenter__
<1>3. ASSUME NEW k \in Keys, NEW row \in Rows, fake_add(k, row) PROVE CloneInv'
  <2>1. \A c \in Cell : IF c[1] \in added' THEN _working'[c] # None
                        ELSE _working'[c] = _committed'[c]
    BY <1>3, ReplacedRow DEF CloneInv, fake_add
  <2>2. QED  BY <1>3, <2>1, ReplacedRow DEF CloneInv, fake_add
<1>4. CASE fake_commit
  BY <1>4 DEF CloneInv, fake_commit
<1>5. CASE fake_rollback
  BY <1>5 DEF CloneInv, fake_rollback
<1>6. CASE __aexit__
  BY <1>6 DEF CloneInv, __aexit__, Contents, Nothing
<1>7. QED
  BY <1>1, <1>2, <1>3, <1>4, <1>5, <1>6 DEF FakeUnitNext

-----------------------------------------------------------------------------
(* Refinement.                                                             *)

Changes == [u \in {FakeUnit} |-> Uncommitted]

\* A unit of work that added nothing has nothing to commit.
LEMMA NothingUncommitted ==
  ASSUME added = {}  PROVE  Uncommitted = Nothing
BY DEF Uncommitted, Nothing

\* The fake starts as the store it stands for ...
LEMMA FakeInitRefines == FakeUnitInit => FakeStore!StoreInit
BY NothingUncommitted
   DEF FakeUnitInit, FakeStore!StoreInit, FakeStore!Nothing, Nothing, FakeStore!Cell, Cell

\* An add() is a change of one row.
LEMMA AddRefines ==
  ASSUME CloneInv, NEW k \in Keys, NEW row \in Rows, fake_add(k, row)
  PROVE  FakeStore!Change(FakeUnit, k, row)
<1> DEFINE change == [c \in Cell |-> IF c[1] = k THEN row[c[2]] ELSE None]
<1>1. Uncommitted' = Overlay(Uncommitted, change)
  <2>1. ASSUME NEW c \in Cell
        PROVE  (IF c[1] \in added' THEN _working'[c] ELSE None)
                 = IF change[c] # None THEN change[c] ELSE Uncommitted[c]
    <3>1. CASE c[1] = k
      BY <3>1, ReplacedRow DEF fake_add, CloneInv
    <3>2. CASE c[1] # k
      BY <3>2, ReplacedRow DEF fake_add, CloneInv, Uncommitted
    <3>3. QED  BY <3>1, <3>2
  <2>2. QED  BY <2>1 DEF Uncommitted, Overlay
<1>2. FakeStore!Overlay(Uncommitted, change) = Overlay(Uncommitted, change)
  BY DEF FakeStore!Overlay, Overlay, FakeStore!Cell, Cell
<1>3. change = [c \in FakeStore!Cell |-> IF c[1] = k THEN row[c[2]] ELSE None]
  BY DEF FakeStore!Cell, Cell
<1>4. Changes' = [Changes EXCEPT ![FakeUnit] =
                    FakeStore!Overlay(Changes[FakeUnit], change)]
  BY <1>1, <1>2 DEF Changes
<1>5. UNCHANGED _committed
  BY DEF fake_add
<1>6. QED  BY <1>3, <1>4, <1>5 DEF FakeStore!Change, Changes

\* A commit() stores all that was added.
LEMMA CommitRefines ==
  ASSUME CloneInv, fake_commit  PROVE  FakeStore!CommitChanges(FakeUnit)
<1>1. _working = Overlay(_committed, Uncommitted)
  <2>1. \A c \in Cell : _working[c] = IF Uncommitted[c] # None THEN Uncommitted[c]
                                      ELSE _committed[c]
    BY DEF CloneInv, fake_commit, Uncommitted
  <2>2. QED  BY <2>1 DEF Overlay, CloneInv, Contents
<1>2. FakeStore!Overlay(_committed, Uncommitted) = Overlay(_committed, Uncommitted)
  BY DEF FakeStore!Overlay, Overlay, FakeStore!Cell, Cell
<1>3. Uncommitted' = FakeStore!Nothing
  BY DEF fake_commit, Uncommitted, FakeStore!Nothing, FakeStore!Cell, Cell
<1>4. _committed' = FakeStore!Overlay(_committed, Changes[FakeUnit])
  BY <1>1, <1>2 DEF fake_commit, Changes
<1>5. Changes' = [Changes EXCEPT ![FakeUnit] = FakeStore!Nothing]
  BY <1>3 DEF Changes
<1>6. QED  BY <1>4, <1>5 DEF FakeStore!CommitChanges, Changes

\* The end of a block discards what was added and not committed.
LEMMA ExitRefines ==
  ASSUME CloneInv, __aexit__  PROVE  FakeStore!Discard(FakeUnit)
<1>1. Uncommitted' = FakeStore!Nothing
  BY DEF __aexit__, Uncommitted, FakeStore!Nothing, FakeStore!Cell, Cell
<1>2. Changes' = [Changes EXCEPT ![FakeUnit] = FakeStore!Nothing]
  BY <1>1 DEF Changes
<1>3. QED  BY <1>2 DEF FakeStore!Discard, Changes, __aexit__

\* ... and each of its steps is one of that store, or none.
LEMMA FakeNextRefines ==
  CloneInv /\ [FakeUnitNext]_fakeUnitVars
    => [FakeStore!StoreNext]_(FakeStore!storeVars)
<1> SUFFICES ASSUME CloneInv, [FakeUnitNext]_fakeUnitVars
             PROVE  [FakeStore!StoreNext]_(FakeStore!storeVars)
  OBVIOUS
<1>1. CASE UNCHANGED fakeUnitVars
  BY <1>1 DEF fakeUnitVars, FakeStore!storeVars, Uncommitted
<1>2. CASE __aenter__
  <2>1. Uncommitted' = Uncommitted
    BY <1>2 DEF CloneInv, __aenter__, Uncommitted
  <2>2. QED  BY <1>2, <2>1 DEF __aenter__, FakeStore!storeVars
<1>3. ASSUME NEW k \in Keys, NEW row \in Rows, fake_add(k, row)
      PROVE  FakeStore!StoreNext
  <2>1. row \in [Columns -> Values \cup {None}]
    BY RowsAssumption
  <2>2. QED  BY <1>3, <2>1, AddRefines DEF FakeStore!StoreNext
<1>4. CASE fake_commit
  BY <1>4, CommitRefines DEF FakeStore!StoreNext
<1>5. CASE fake_rollback
  BY <1>5 DEF fake_rollback, FakeStore!storeVars, Uncommitted
<1>6. CASE __aexit__
  BY <1>6, ExitRefines DEF FakeStore!StoreNext
<1>7. QED
  BY <1>1, <1>2, <1>3, <1>4, <1>5, <1>6 DEF FakeUnitNext

\* The fake keeps the same promise as the SQLAlchemy unit of work: what it
\* stores changes by commits only, and by all that was added since the block
\* began or last committed.
THEOREM FakeImplementsStore == FakeUnitSpec => FakeStoreSpec
BY CloneInit, CloneNext, FakeInitRefines, FakeNextRefines, PTL
   DEF FakeUnitSpec, FakeStoreSpec, FakeStore!StoreSpec
=============================================================================
