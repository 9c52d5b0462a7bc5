------------------------ MODULE UnitOfWorkProperties ------------------------
(***************************************************************************)
(* What the SQLAlchemy unit of work promises its callers.                  *)
(***************************************************************************)
EXTENDS UnitOfWork

\* Type correctness of the database, the sessions and the units; a unit whose
\* session is not open has no call and no transaction.
UnitTypeOK ==
  /\ db \in Contents
  /\ session \in [Units -> {"closed", "open", "failed"}]
  /\ pc \in [Units -> {"idle", "adding", "querying", "committing", "stored"}]
  /\ arg \in [Units -> [key : Keys, row : Rows] \cup {NoArg}]
  /\ \A u \in Units : pc[u] = "adding" => arg[u] # NoArg
  /\ staged \in [Units -> Contents]
  /\ inserting \in [Units -> BOOLEAN]
  /\ written \in [Units -> Contents]
  /\ committed \in [Units -> BOOLEAN]
  /\ outcome \in [Units -> {"none", "commit", "rollback"}]
  /\ adds \in 0..MaxAdds
  /\ stored \in [Units -> BOOLEAN]
  /\ overtaken \subseteq Keys
  /\ \A u \in Units : session[u] # "open" =>
       pc[u] = "idle" /\ staged[u] = Nothing /\ written[u] = Nothing

TheStore == INSTANCE TransactionalStore WITH store <- db, changes <- written

\* The unit of work implements the transactional store: whatever fails, waits,
\* is cancelled or left without a commit, the database gets all that a unit
\* flushed since its last boundary, in one step, or nothing.
TransactionalStoreSpec == TheStore!StoreSpec

\* A committed run has its model and node, a committed result or artifact its
\* run, also when the unit that added the parent failed or was rolled back.
ReferencesHold ==
  \A k \in Keys : Touches(db, k) => \A p \in Parents[k] : Touches(db, p)

\* A committed row is one that a caller added, not a mixture of two, unless a
\* second unit committed it between another one's merge() and flush: merge()
\* updates changed columns only.
RowsAsAdded ==
  \A k \in Keys : Touches(db, k) /\ k \notin overtaken => Row(db, k) \in Rows

\* A unit that says it has committed, in `committed` or in its span, has stored
\* a commit since it began or rolled back, also after a commit() or rollback()
\* that failed or was interrupted.  The converse does not hold, and a second
\* commit() that fails takes nothing back.
CommittedMeansStored ==
  \A u \in Units : committed[u] \/ outcome[u] = "commit" => stored[u]

\* Every add(), query and commit() returns or raises, whoever holds the row it needs,
\* provided callers leave their units.
CallsReturn == \A u \in Units : pc[u] # "idle" ~> pc[u] = "idle"
=============================================================================
