------------------------------ MODULE AtomicStore ------------------------------
(***************************************************************************)
(* What callers may assume of the service's persistence.  A row stands for *)
(* an aggregate and counts the effects it shows.  A call takes effect in   *)
(* one step, on the rows as they are at that moment, or not at all; only   *)
(* while the store is exposed may a call put back what others replaced.    *)
(***************************************************************************)
EXTENDS Naturals

CONSTANT Rows

VARIABLES
    store,      \* row -> the effects it shows
    applied,    \* row -> the effects calls ever had on it
    exposed     \* whether a call in progress may write what it should not

storeVars == <<store, applied, exposed>>

StoreInit ==
    /\ store = [r \in Rows |-> 0]
    /\ applied = store
    /\ exposed = FALSE

OneMore(f, T) == [r \in Rows |-> IF r \in T THEN f[r] + 1 ELSE f[r]]

\* A call has its effect on the rows in T and on no other.
Apply(T) ==
    /\ store' = OneMore(store, T)
    /\ applied' = OneMore(applied, T)

\* A call has its effect on the rows in T, and effects of others may be gone.
Overwrite(T) ==
    /\ exposed
    /\ applied' = OneMore(applied, T)
    /\ store' \in [Rows -> Nat]
    /\ \A r \in Rows : store'[r] <= applied'[r]

StoreNext ==
    /\ exposed' \in BOOLEAN
    /\ \E T \in SUBSET Rows : Apply(T) \/ Overwrite(T)

StoreSpec == StoreInit /\ [][StoreNext]_storeVars
=============================================================================
