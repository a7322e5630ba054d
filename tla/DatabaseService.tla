---------------------------- MODULE DatabaseService ----------------------------
(***************************************************************************)
(* How a call of the domain service becomes a database transaction         *)
(* (app/infrastructure/database_service.py, sqlalchemy_repository.py):     *)
(* a session loads the whole state table by table, runs the method on that *)
(* copy, and writes the copy back if it looks different from what was      *)
(* loaded.  Mutations first take one transaction-scoped advisory lock;     *)
(* calls whose name starts with get_, list_, preview_ or resolve_ do not.  *)
(* One of those, get_quote_request_workspace, changes its copy all the     *)
(* same and so has it written back: a rewriting read.                      *)
(* Transactions are READ COMMITTED: each statement sees what is committed  *)
(* when it runs, and what a session writes is seen when it commits.        *)
(***************************************************************************)
EXTENDS Integers, Sequences, FiniteSets

CONSTANTS
    Sessions,       \* database sessions, one per request in flight
    NumRows,        \* aggregates, in the order _load_state reads them
    MaxCalls,       \* bound: calls ever begun
    NoSession       \* no session holds the advisory lock

ASSUME DatabaseConstants ==
    /\ NumRows \in Nat /\ MaxCalls \in Nat
    /\ NoSession \notin Sessions

Rows == 1 .. NumRows

VARIABLES
    db,             \* row -> effects committed to it
    holder,         \* the session that holds the advisory lock
    pc,             \* session -> idle, waiting (for the lock) or loading
    kind,           \* session -> mutation, read or rewriting
    targets,        \* session -> the rows its method changes
    view,           \* session -> the rows it has loaded so far
    calls,          \* how many calls were begun
    applied,        \* history: row -> how many committed calls had an effect on it
    overtakers      \* history: session -> the kinds of the calls that wrote, while
                    \* it ran, a row it had loaded

serviceVars == <<db, holder, pc, kind, targets, view, calls, applied, overtakers>>

ServiceInit ==
    /\ db = [r \in Rows |-> 0]
    /\ holder = NoSession
    /\ pc = [s \in Sessions |-> "idle"]
    /\ kind = [s \in Sessions |-> "read"]
    /\ targets = [s \in Sessions |-> {}]
    /\ view = [s \in Sessions |-> << >>]
    /\ calls = 0
    /\ applied = [r \in Rows |-> 0]
    /\ overtakers = [s \in Sessions |-> {}]

\* A mutation may have no effect: a retry it recognises.
BeginMutation(s, T) ==
    /\ pc[s] = "idle" /\ calls < MaxCalls
    /\ pc' = [pc EXCEPT ![s] = "waiting"]
    /\ kind' = [kind EXCEPT ![s] = "mutation"]
    /\ targets' = [targets EXCEPT ![s] = T]
    /\ calls' = calls + 1
    /\ UNCHANGED <<db, holder, view, applied, overtakers>>

BeginRead(s, k) ==
    /\ pc[s] = "idle" /\ calls < MaxCalls
    /\ pc' = [pc EXCEPT ![s] = "loading"]
    /\ kind' = [kind EXCEPT ![s] = k]
    /\ calls' = calls + 1
    /\ UNCHANGED <<db, holder, targets, view, applied, overtakers>>

\* Mutated form of AcquireLock: the lock is shared.
AcquireShared(s) ==
    /\ pc[s] = "waiting"
    /\ holder' = s
    /\ pc' = [pc EXCEPT ![s] = "loading"]
    /\ UNCHANGED <<db, kind, targets, view, calls, applied, overtakers>>

\* pg_advisory_xact_lock
AcquireLock(s) ==
    /\ pc[s] = "waiting"
    /\ holder = NoSession
    /\ holder' = s
    /\ pc' = [pc EXCEPT ![s] = "loading"]
    /\ UNCHANGED <<db, kind, targets, view, calls, applied, overtakers>>

\* The next table of _load_state.
LoadRow(s) ==
    /\ pc[s] = "loading"
    /\ Len(view[s]) < NumRows
    /\ view' = [view EXCEPT ![s] = Append(@, db[Len(@) + 1])]
    /\ UNCHANGED <<db, holder, pc, kind, targets, calls, applied, overtakers>>

\* Mutated form of Release: only a commit gives the lock back.
ReleaseOnCommit(s) == IF holder = s /\ Len(view[s]) = NumRows THEN NoSession ELSE holder

\* The lock ends with the transaction, however that ends.
Release(s) == IF holder = s THEN NoSession ELSE holder

Changed(s, r) == IF r \in targets[s] THEN view[s][r] + 1 ELSE view[s][r]

\* flush writes nothing when the copy looks as it did when it was loaded.
\* Otherwise it merges every row; a row the method did not change is written
\* too unless the session still holds the object it loaded, so the rows written
\* are any set W that contains the changed ones.
Written(s) ==
    IF targets[s] # {} \/ kind[s] = "rewriting"
    THEN {W \in SUBSET Rows : targets[s] \subseteq W}
    ELSE {{}}

\* Who has loaded a row of W is overtaken when the call in session s writes it.
Overtaking(s, W) ==
    [t \in Sessions |->
        IF t # s /\ W \cap DOMAIN view[t] # {} THEN overtakers[t] \cup {kind[s]}
        ELSE overtakers[t]]

\* The session is closed: nothing of the call is left in memory.
Close(s) ==
    /\ pc' = [pc EXCEPT ![s] = "idle"]
    /\ kind' = [kind EXCEPT ![s] = "read"]
    /\ targets' = [targets EXCEPT ![s] = {}]
    /\ view' = [view EXCEPT ![s] = << >>]

\* The method runs, the repository flushes and the transaction commits.
Commit(s) ==
    /\ pc[s] = "loading"
    /\ Len(view[s]) = NumRows
    /\ \E W \in Written(s) :
        /\ db' = [r \in Rows |-> IF r \in W THEN Changed(s, r) ELSE db[r]]
        /\ overtakers' = [Overtaking(s, W) EXCEPT ![s] = {}]
    /\ applied' = [r \in Rows |-> IF r \in targets[s] THEN applied[r] + 1 ELSE applied[r]]
    /\ holder' = Release(s)
    /\ Close(s)
    /\ UNCHANGED calls

\* An exception rolls back; a lost connection or a crash does the same.
Rollback(s) ==
    /\ pc[s] \in {"waiting", "loading"}
    /\ holder' = Release(s)
    /\ Close(s)
    /\ overtakers' = [overtakers EXCEPT ![s] = {}]
    /\ UNCHANGED <<db, calls, applied>>

Proceed(s) == AcquireLock(s) \/ LoadRow(s) \/ Commit(s)

ServiceNext ==
    \E s \in Sessions :
        \/ \E T \in SUBSET Rows : BeginMutation(s, T)
        \/ \E k \in {"read", "rewriting"} : BeginRead(s, k)
        \/ Proceed(s)
        \/ Rollback(s)

ServiceSpec == ServiceInit /\ [][ServiceNext]_serviceVars

\* A session runs on; the server grants the lock to whoever waits for it, in
\* turn.
ServiceFairness ==
    \A s \in Sessions :
        /\ SF_serviceVars(AcquireLock(s))
        /\ WF_serviceVars(LoadRow(s) \/ Commit(s))

FairServiceSpec == ServiceSpec /\ ServiceFairness

(***************************************************************************)
(* Properties                                                              *)
(***************************************************************************)

Kinds == {"mutation", "read", "rewriting"}

\* Every variable has its type.
ServiceTypeOK ==
    /\ db \in [Rows -> Nat] /\ applied \in [Rows -> Nat]
    /\ holder \in Sessions \cup {NoSession}
    /\ pc \in [Sessions -> {"idle", "waiting", "loading"}]
    /\ kind \in [Sessions -> Kinds]
    /\ overtakers \in [Sessions -> SUBSET Kinds]
    /\ targets \in [Sessions -> SUBSET Rows]
    /\ view \in [Sessions -> Seq(Nat)] /\ \A s \in Sessions : Len(view[s]) <= NumRows
    /\ calls \in Nat

\* A running mutation holds the lock and no other mutation overtakes it, and
\* whoever is overtaken by nobody works on what is committed: a mutation's copy
\* can only be stale because a rewriting read committed beside it.
MutationViewCurrent ==
    \A s \in Sessions : pc[s] = "loading" =>
        /\ kind[s] = "mutation" => holder = s /\ overtakers[s] \subseteq {"rewriting"}
        /\ overtakers[s] = {} => \A r \in DOMAIN view[s] : view[s][r] = db[r]

\* "PostgreSQL repository mutations use a transaction-scoped advisory lock for
\* shared aggregate consistency": no committed effect is overwritten.
NoLostUpdate == db = applied

\* The calls a rewriting read can have come between: the read, when a call has
\* overtaken it, and every call it has overtaken.
Crossed(s) ==
    IF kind[s] = "rewriting" THEN overtakers[s] # {} ELSE "rewriting" \in overtakers[s]

\* A call takes effect in one step on the current state, or not at all, unless
\* a rewriting read and another call have crossed; and what then comes out of
\* the rows never has more effects than were applied.
Store ==
    INSTANCE AtomicStore WITH store <- db, exposed <- \E s \in Sessions : Crossed(s)

CallsAreAtomic == Store!StoreSpec

\* A mutation that waits for the lock is done sooner or later, although others
\* take the lock, fail and disconnect in between.
MutationsEnd ==
    \A s \in Sessions : pc[s] = "waiting" ~> pc[s] = "idle"
=============================================================================
