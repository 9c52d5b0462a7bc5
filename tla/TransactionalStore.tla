------------------------- MODULE TransactionalStore -------------------------
(***************************************************************************)
(* What a unit of work promises: the store changes only by a commit, which *)
(* applies all that its unit changed since its last boundary and nothing   *)
(* else; what is not committed is discarded whole; and no two units have   *)
(* changed the same row at the same time.                                  *)
(***************************************************************************)
EXTENDS Cells

CONSTANT Units

VARIABLES
  store,   \* what other programs and later units can read
  changes  \* changes[u]: what u has changed and not yet committed

storeVars == <<store, changes>>

StoreInit ==
  /\ store = Nothing
  /\ changes = [u \in Units |-> Nothing]

\* u changes row k, in the columns for which change has a value.
Change(u, k, change) ==
  /\ \A v \in Units \ {u} : ~Touches(changes[v], k)
  /\ changes' = [changes EXCEPT ![u] =
       Overlay(@, [c \in Cell |-> IF c[1] = k THEN change[c[2]] ELSE None])]
  /\ UNCHANGED store

CommitChanges(u) ==
  /\ store' = Overlay(store, changes[u])
  /\ changes' = [changes EXCEPT ![u] = Nothing]

Discard(u) ==
  /\ changes' = [changes EXCEPT ![u] = Nothing]
  /\ UNCHANGED store

StoreNext ==
  \E u \in Units :
    \/ \E k \in Keys, change \in [Columns -> Values \cup {None}] :
         Change(u, k, change)
    \/ CommitChanges(u)
    \/ Discard(u)

StoreSpec == StoreInit /\ [][StoreNext]_storeVars
=============================================================================
