------------------------- MODULE DatabaseServiceProofs -------------------------
(***************************************************************************)
(* Proofs about the transactional service, for every set of sessions,      *)
(* every number of rows and every number of calls, rewriting reads among   *)
(* them.                                                                   *)
(***************************************************************************)
EXTENDS DatabaseService, SequenceTheorems, TLAPS

(***************************************************************************)
(* The inductive invariant                                                 *)
(***************************************************************************)

\* A session that does nothing has nothing in memory, one that waits has loaded
\* nothing yet, and a read has no row to change.
SessionsAreTidy ==
    \A s \in Sessions :
        /\ pc[s] = "idle" => kind[s] = "read"
        /\ pc[s] # "loading" => view[s] = << >> /\ overtakers[s] = {}
        /\ kind[s] # "mutation" => targets[s] = {}

\* No row shows an effect that was never applied to it, neither in the database
\* nor in what a session has loaded.
NothingInvented ==
    /\ \A r \in Rows : db[r] <= applied[r]
    /\ \A s \in Sessions : \A r \in DOMAIN view[s] : view[s][r] <= applied[r]

ServiceInv ==
    /\ ServiceTypeOK
    /\ SessionsAreTidy
    /\ MutationViewCurrent
    /\ NothingInvented

LEMMA NothingLoaded == DOMAIN << >> = {}
OBVIOUS

LEMMA ServiceInitInv == ServiceInit => ServiceInv
BY EmptySeq, DatabaseConstants
DEF ServiceInit, ServiceInv, ServiceTypeOK, SessionsAreTidy, MutationViewCurrent,
    NothingInvented, Kinds

(***************************************************************************)
(* What a commit does to the rows                                          *)
(***************************************************************************)

\* A session that has loaded everything has one value for each row.
LEMMA EverythingLoaded ==
    ASSUME ServiceInv, NEW s \in Sessions, Len(view[s]) = NumRows
    PROVE  DOMAIN view[s] = Rows /\ \A r \in Rows : view[s][r] \in Nat
<1>1. view[s] \in Seq(Nat)
  BY DEF ServiceInv, ServiceTypeOK
<1>2. QED  BY <1>1, DatabaseConstants DEF Rows

\* A commit, taken apart: W is what it writes.
CommitOf(s, W) ==
    /\ pc[s] = "loading"
    /\ DOMAIN view[s] = Rows
    /\ \A r \in Rows : view[s][r] \in Nat
    /\ W \in SUBSET Rows /\ targets[s] \subseteq W
    /\ kind[s] = "read" => W = {}
    /\ targets[s] \in SUBSET Rows
    /\ db' = [r \in Rows |-> IF r \in W THEN Changed(s, r) ELSE db[r]]
    /\ overtakers' = [Overtaking(s, W) EXCEPT ![s] = {}]
    /\ applied' = [r \in Rows |-> IF r \in targets[s] THEN applied[r] + 1 ELSE applied[r]]

LEMMA CommitWrites ==
    ASSUME ServiceInv, NEW s \in Sessions, Commit(s)
    PROVE  \E W : CommitOf(s, W)
<1>1. PICK W \in Written(s) :
         /\ db' = [r \in Rows |-> IF r \in W THEN Changed(s, r) ELSE db[r]]
         /\ overtakers' = [Overtaking(s, W) EXCEPT ![s] = {}]
  BY DEF Commit
<1>2. targets[s] \in SUBSET Rows /\ (kind[s] = "read" => targets[s] = {})
  BY DEF ServiceInv, ServiceTypeOK, SessionsAreTidy
<1>3. W \in SUBSET Rows /\ targets[s] \subseteq W /\ (kind[s] = "read" => W = {})
  BY <1>2 DEF Written
<1>4. QED  BY <1>1, <1>2, <1>3, EverythingLoaded DEF Commit, CommitOf

\* Unless it has crossed a rewriting read, a commit has its effect on the rows
\* the method changes, as they are, and on no other: rows written back without
\* need are written as they are too.
LEMMA CommitIsApply ==
    ASSUME ServiceInv, NEW s \in Sessions, Commit(s), ~Crossed(s)
    PROVE  db' = [r \in Rows |-> IF r \in targets[s] THEN db[r] + 1 ELSE db[r]]
<1>1. PICK W : CommitOf(s, W)
  BY CommitWrites
<1>2. CASE kind[s] = "read"
  <2>1. W = {} /\ targets[s] = {}
    BY <1>1, <1>2 DEF CommitOf
  <2>2. QED  BY <1>1, <2>1 DEF CommitOf
<1>3. CASE kind[s] # "read"
  <2>1. overtakers[s] = {}
    BY <1>1, <1>3 DEF CommitOf, Crossed, ServiceInv, MutationViewCurrent, ServiceTypeOK, Kinds
  <2>2. \A r \in Rows : view[s][r] = db[r]
    BY <1>1, <2>1 DEF CommitOf, ServiceInv, MutationViewCurrent
  <2>3. QED  BY <1>1, <2>2 DEF CommitOf, Changed
<1>4. QED  BY <1>2, <1>3

(***************************************************************************)
(* Every step keeps the invariant                                          *)
(***************************************************************************)

LEMMA BeginKeepsInv ==
    ASSUME ServiceInv, NEW s \in Sessions,
           \/ \E k \in {"read", "rewriting"} : BeginRead(s, k)
           \/ \E T \in SUBSET Rows : BeginMutation(s, T)
    PROVE  ServiceInv'
<1> USE DEF ServiceInv
<1>1. /\ pc[s] = "idle" /\ view[s] = << >> /\ targets[s] = {} /\ overtakers[s] = {}
      /\ db' = db /\ holder' = holder /\ view' = view /\ applied' = applied
      /\ overtakers' = overtakers /\ calls' = calls + 1
  BY DEF BeginRead, BeginMutation, SessionsAreTidy
<1>2. NothingInvented'
  BY <1>1 DEF NothingInvented
<1>3. ASSUME NEW k \in {"read", "rewriting"}, BeginRead(s, k) PROVE ServiceInv'
  <2>1. ServiceTypeOK'
    BY <1>1, <1>3 DEF ServiceTypeOK, BeginRead, Kinds
  <2>2. SessionsAreTidy'
    BY <1>1, <1>3 DEF SessionsAreTidy, BeginRead, ServiceTypeOK
  <2>3. MutationViewCurrent'
    <3>1. kind'[s] # "mutation" /\ \A t \in Sessions \ {s} : pc'[t] = pc[t] /\ kind'[t] = kind[t]
      BY <1>3 DEF BeginRead, ServiceTypeOK
    <3>2. QED  BY <1>1, <3>1, NothingLoaded DEF MutationViewCurrent
  <2>4. QED  BY <1>2, <2>1, <2>2, <2>3
<1>4. ASSUME NEW T \in SUBSET Rows, BeginMutation(s, T) PROVE ServiceInv'
  <2>1. ServiceTypeOK'
    BY <1>1, <1>4 DEF ServiceTypeOK, BeginMutation, Kinds
  <2>2. SessionsAreTidy'
    BY <1>1, <1>4 DEF SessionsAreTidy, BeginMutation, ServiceTypeOK
  <2>3. MutationViewCurrent'
    <3>1. pc'[s] = "waiting" /\ \A t \in Sessions \ {s} : pc'[t] = pc[t] /\ kind'[t] = kind[t]
      BY <1>4 DEF BeginMutation, ServiceTypeOK
    <3>2. QED  BY <1>1, <3>1 DEF MutationViewCurrent
  <2>4. QED  BY <1>2, <2>1, <2>2, <2>3
<1>5. QED  BY <1>3, <1>4

LEMMA AcquireKeepsInv ==
    ASSUME ServiceInv, NEW s \in Sessions, AcquireLock(s)
    PROVE  ServiceInv'
<1> USE DEF ServiceInv
<1>1. ServiceTypeOK'
  BY DEF ServiceTypeOK, AcquireLock
<1>2. SessionsAreTidy'
  BY DEF SessionsAreTidy, AcquireLock, ServiceTypeOK
<1>3. MutationViewCurrent'
  <2>1. \A t \in Sessions : ~(kind[t] = "mutation" /\ pc[t] = "loading")
    BY DatabaseConstants DEF MutationViewCurrent, AcquireLock
  <2>2. view[s] = << >> /\ overtakers[s] = {}
    BY DEF SessionsAreTidy, AcquireLock
  <2>3. /\ holder' = s /\ \A t \in Sessions \ {s} : pc'[t] = pc[t]
        /\ UNCHANGED <<db, kind, view, overtakers>>
    BY DEF AcquireLock, ServiceTypeOK
  <2>4. QED  BY <2>1, <2>2, <2>3, NothingLoaded DEF MutationViewCurrent
<1>4. NothingInvented'
  BY DEF NothingInvented, AcquireLock
<1>5. QED  BY <1>1, <1>2, <1>3, <1>4

LEMMA LoadKeepsInv ==
    ASSUME ServiceInv, NEW s \in Sessions, LoadRow(s)
    PROVE  ServiceInv'
<1> USE DEF ServiceInv
<1> DEFINE n   == Len(view[s]) + 1
           new == Append(view[s], db[n])
<1>1. /\ pc[s] = "loading" /\ Len(view[s]) < NumRows
      /\ view' = [view EXCEPT ![s] = new]
      /\ UNCHANGED <<db, holder, pc, kind, targets, calls, applied, overtakers>>
  BY DEF LoadRow
<1>2. view[s] \in Seq(Nat) /\ n \in Rows /\ db[n] \in Nat
  BY <1>1, DatabaseConstants DEF ServiceTypeOK, Rows
<1>3. /\ new \in Seq(Nat) /\ Len(new) = n /\ new[n] = db[n]
      /\ DOMAIN new = DOMAIN view[s] \cup {n}
      /\ \A r \in DOMAIN view[s] : new[r] = view[s][r]
  BY <1>2
<1> HIDE DEF new
<1>4. view'[s] = new /\ \A t \in Sessions \ {s} : view'[t] = view[t]
  BY <1>1 DEF ServiceTypeOK
<1>5. ServiceTypeOK'
  <2>1. Len(new) <= NumRows
    BY <1>1, <1>2, <1>3, DatabaseConstants
  <2>2. QED  BY <1>1, <1>3, <2>1 DEF ServiceTypeOK
<1>6. SessionsAreTidy'
  BY <1>1 DEF SessionsAreTidy, ServiceTypeOK
<1>7. MutationViewCurrent'
  <2> SUFFICES ASSUME NEW t \in Sessions, overtakers[t] = {}, pc[t] = "loading"
               PROVE  \A r \in DOMAIN view'[t] : view'[t][r] = db[r]
    BY <1>1 DEF MutationViewCurrent
  <2>1. \A r \in DOMAIN view[t] : view[t][r] = db[r]
    BY DEF MutationViewCurrent
  <2>2. CASE t = s
    BY <1>3, <1>4, <2>1, <2>2
  <2>3. CASE t # s
    BY <1>4, <2>1, <2>3
  <2>4. QED  BY <2>2, <2>3
<1>8. NothingInvented'
  <2>1. \A r \in DOMAIN new : new[r] <= applied[r]
    BY <1>2, <1>3 DEF NothingInvented
  <2>2. QED  BY <1>1, <1>4, <2>1 DEF NothingInvented
<1>9. QED  BY <1>5, <1>6, <1>7, <1>8

\* A session that ends, one way or another, is tidy and leaves the others as
\* they were.
LEMMA CloseKeepsTypes ==
    ASSUME ServiceInv, NEW s \in Sessions, Close(s), holder' = Release(s),
           overtakers'[s] = {},
           \A t \in Sessions \ {s} : pc[t] # "loading" => overtakers'[t] = {}
    PROVE  /\ holder' \in Sessions \cup {NoSession}
           /\ pc' \in [Sessions -> {"idle", "waiting", "loading"}]
           /\ kind' \in [Sessions -> Kinds]
           /\ targets' \in [Sessions -> SUBSET Rows]
           /\ view' \in [Sessions -> Seq(Nat)] /\ \A t \in Sessions : Len(view'[t]) <= NumRows
           /\ pc'[s] = "idle" /\ view'[s] = << >>
           /\ \A t \in Sessions \ {s} :
                pc'[t] = pc[t] /\ kind'[t] = kind[t] /\ view'[t] = view[t]
           /\ SessionsAreTidy'
<1> USE DEF ServiceInv, ServiceTypeOK
<1>1. /\ pc'[s] = "idle" /\ kind'[s] = "read" /\ targets'[s] = {} /\ view'[s] = << >>
      /\ \A t \in Sessions \ {s} : /\ pc'[t] = pc[t] /\ kind'[t] = kind[t]
                                   /\ targets'[t] = targets[t] /\ view'[t] = view[t]
  BY DEF Close
<1>2. << >> \in Seq(Nat) /\ Len(<< >>) <= NumRows
  BY DatabaseConstants
<1>3. view' \in [Sessions -> Seq(Nat)] /\ \A t \in Sessions : Len(view'[t]) <= NumRows
  BY <1>2 DEF Close
<1>4. /\ holder' \in Sessions \cup {NoSession}
      /\ pc' \in [Sessions -> {"idle", "waiting", "loading"}]
      /\ kind' \in [Sessions -> Kinds]
      /\ targets' \in [Sessions -> SUBSET Rows]
  BY DEF Close, Release, Kinds
<1>5. SessionsAreTidy'
  BY <1>1 DEF SessionsAreTidy
<1>6. QED  BY <1>1, <1>3, <1>4, <1>5

\* Whom a commit leaves not overtaken has loaded none of the rows written.
LEMMA CommitOvertakes ==
    ASSUME ServiceInv, NEW s \in Sessions, NEW W, CommitOf(s, W)
    PROVE  /\ overtakers' \in [Sessions -> SUBSET Kinds]
           /\ overtakers'[s] = {}
           /\ \A t \in Sessions \ {s} :
                \/ overtakers'[t] = overtakers[t] /\ W \cap DOMAIN view[t] = {}
                \/ /\ overtakers'[t] = overtakers[t] \cup {kind[s]}
                   /\ W # {} /\ view[t] # << >>
<1>1. Overtaking(s, W) \in [Sessions -> SUBSET Kinds]
  BY DEF Overtaking, ServiceInv, ServiceTypeOK
<1>2. overtakers' = [Overtaking(s, W) EXCEPT ![s] = {}]
  BY DEF CommitOf
<1>3. \A t \in Sessions \ {s} : overtakers'[t] = Overtaking(s, W)[t]
  BY <1>1, <1>2
<1>4. QED  BY <1>1, <1>2, <1>3, NothingLoaded DEF Overtaking

LEMMA CommitKeepsInv ==
    ASSUME ServiceInv, NEW s \in Sessions, Commit(s)
    PROVE  ServiceInv'
<1> USE DEF ServiceInv
<1>1. PICK W : CommitOf(s, W)
  BY CommitWrites
<1>2. Close(s) /\ holder' = Release(s) /\ calls' = calls
  BY DEF Commit
<1>3. \A t \in Sessions \ {s} : pc[t] # "loading" => overtakers'[t] = {}
  BY <1>1, CommitOvertakes DEF SessionsAreTidy
<1>4. /\ holder' \in Sessions \cup {NoSession}
      /\ pc' \in [Sessions -> {"idle", "waiting", "loading"}]
      /\ kind' \in [Sessions -> Kinds]
      /\ targets' \in [Sessions -> SUBSET Rows]
      /\ view' \in [Sessions -> Seq(Nat)] /\ \A t \in Sessions : Len(view'[t]) <= NumRows
      /\ pc'[s] = "idle" /\ view'[s] = << >>
      /\ \A t \in Sessions \ {s} :
           pc'[t] = pc[t] /\ kind'[t] = kind[t] /\ view'[t] = view[t]
      /\ SessionsAreTidy'
  BY <1>1, <1>2, <1>3, CommitOvertakes, CloseKeepsTypes
<1>5. \A r \in Rows :
         /\ db'[r] \in Nat /\ applied'[r] \in Nat
         /\ db'[r] = IF r \in W THEN Changed(s, r) ELSE db[r]
         /\ applied'[r] = IF r \in targets[s] THEN applied[r] + 1 ELSE applied[r]
  BY <1>1 DEF CommitOf, Changed, ServiceTypeOK
<1>6. ServiceTypeOK'
  <2>1. db' \in [Rows -> Nat] /\ applied' \in [Rows -> Nat]
    BY <1>1, <1>5 DEF CommitOf
  <2>2. QED  BY <1>1, <1>2, <1>4, <2>1, CommitOvertakes DEF ServiceTypeOK
<1>7. MutationViewCurrent'
  <2> SUFFICES ASSUME NEW t \in Sessions, pc'[t] = "loading"
               PROVE  /\ kind'[t] = "mutation" =>
                           holder' = t /\ overtakers'[t] \subseteq {"rewriting"}
                      /\ overtakers'[t] = {} => \A r \in DOMAIN view'[t] : view'[t][r] = db'[r]
    BY DEF MutationViewCurrent
  <2>1. t # s /\ pc[t] = "loading" /\ kind'[t] = kind[t] /\ view'[t] = view[t]
    BY <1>4
  <2>2. /\ kind[t] = "mutation" => holder = t /\ overtakers[t] \subseteq {"rewriting"}
        /\ overtakers[t] = {} => \A r \in DOMAIN view[t] : view[t][r] = db[r]
    BY <2>1 DEF MutationViewCurrent
  <2>3. \/ overtakers'[t] = overtakers[t] /\ W \cap DOMAIN view[t] = {}
        \/ overtakers'[t] = overtakers[t] \cup {kind[s]} /\ W # {}
    BY <1>1, <2>1, CommitOvertakes
  <2>4. ASSUME kind[t] = "mutation"
        PROVE  holder' = t /\ overtakers'[t] \subseteq {"rewriting"}
    <3>1. holder' = t
      BY <1>2, <2>1, <2>2, <2>4 DEF Release
    <3>2. kind[s] # "mutation"
      BY <1>1, <2>1, <2>2, <2>4 DEF CommitOf, MutationViewCurrent
    <3>3. W # {} => kind[s] = "rewriting"
      BY <1>1, <3>2 DEF CommitOf, ServiceTypeOK, Kinds
    <3>4. QED  BY <2>2, <2>3, <2>4, <3>1, <3>3
  <2>5. ASSUME overtakers'[t] = {}
        PROVE  \A r \in DOMAIN view'[t] : view'[t][r] = db'[r]
    <3>1. overtakers[t] = {} /\ W \cap DOMAIN view[t] = {}
      BY <2>3, <2>5
    <3>2. DOMAIN view[t] \subseteq Rows
      BY DatabaseConstants DEF ServiceTypeOK, Rows
    <3>3. QED  BY <1>5, <2>1, <2>2, <3>1, <3>2
  <2>6. QED  BY <2>1, <2>4, <2>5
<1>8. NothingInvented'
  <2>1. \A r \in Rows : db'[r] <= applied'[r] /\ applied[r] <= applied'[r]
    BY <1>1, <1>5 DEF CommitOf, Changed, NothingInvented, ServiceTypeOK
  <2>2. ASSUME NEW t \in Sessions, NEW r \in DOMAIN view'[t]
        PROVE  view'[t][r] <= applied'[r]
    <3>1. t # s /\ view'[t] = view[t]
      BY <1>4, <2>2
    <3>2. r \in Rows /\ view[t][r] \in Nat
      BY <2>2, <3>1, DatabaseConstants DEF ServiceTypeOK, Rows
    <3>3. QED  BY <1>5, <2>1, <2>2, <3>1, <3>2 DEF NothingInvented, ServiceTypeOK
  <2>3. QED  BY <2>1, <2>2 DEF NothingInvented
<1>9. QED  BY <1>4, <1>6, <1>7, <1>8

LEMMA RollbackKeepsInv ==
    ASSUME ServiceInv, NEW s \in Sessions, Rollback(s)
    PROVE  ServiceInv'
<1> USE DEF ServiceInv
<1>1. /\ Close(s) /\ holder' = Release(s) /\ db' = db /\ calls' = calls
      /\ applied' = applied /\ overtakers' = [overtakers EXCEPT ![s] = {}]
  BY DEF Rollback
<1>2. /\ overtakers' \in [Sessions -> SUBSET Kinds] /\ overtakers'[s] = {}
      /\ \A t \in Sessions \ {s} : overtakers'[t] = overtakers[t]
  BY <1>1 DEF ServiceTypeOK
<1>3. \A t \in Sessions \ {s} : pc[t] # "loading" => overtakers'[t] = {}
  BY <1>2 DEF SessionsAreTidy
<1>4. /\ holder' \in Sessions \cup {NoSession}
      /\ pc' \in [Sessions -> {"idle", "waiting", "loading"}]
      /\ kind' \in [Sessions -> Kinds]
      /\ targets' \in [Sessions -> SUBSET Rows]
      /\ view' \in [Sessions -> Seq(Nat)] /\ \A t \in Sessions : Len(view'[t]) <= NumRows
      /\ pc'[s] = "idle" /\ view'[s] = << >>
      /\ \A t \in Sessions \ {s} :
           pc'[t] = pc[t] /\ kind'[t] = kind[t] /\ view'[t] = view[t]
      /\ SessionsAreTidy'
  BY <1>1, <1>2, <1>3, CloseKeepsTypes
<1>5. ServiceTypeOK'
  BY <1>1, <1>2, <1>4 DEF ServiceTypeOK
<1>6. MutationViewCurrent'
  <2>1. \A t \in Sessions \ {s} : holder = t => holder' = t
    BY <1>1 DEF Release
  <2>2. QED
    <3> SUFFICES ASSUME NEW t \in Sessions, pc'[t] = "loading"
                 PROVE  /\ kind'[t] = "mutation" =>
                             holder' = t /\ overtakers'[t] \subseteq {"rewriting"}
                        /\ overtakers'[t] = {} => \A r \in DOMAIN view'[t] : view'[t][r] = db'[r]
      BY DEF MutationViewCurrent
    <3>1. t \in Sessions \ {s}
      BY <1>4
    <3>2. /\ pc[t] = "loading" /\ kind'[t] = kind[t] /\ view'[t] = view[t]
          /\ overtakers'[t] = overtakers[t]
      BY <1>2, <1>4, <3>1
    <3>3. QED  BY <1>1, <2>1, <3>1, <3>2 DEF MutationViewCurrent
<1>7. NothingInvented'
  BY <1>1, <1>4, NothingLoaded DEF NothingInvented
<1>8. QED  BY <1>4, <1>5, <1>6, <1>7

LEMMA StepKeepsInv ==
    ASSUME ServiceInv, [ServiceNext]_serviceVars
    PROVE  ServiceInv'
<1>1. CASE UNCHANGED serviceVars
  BY <1>1 DEF serviceVars, ServiceInv, ServiceTypeOK, SessionsAreTidy, MutationViewCurrent,
     NothingInvented
<1>2. ASSUME NEW s \in Sessions, NEW T \in SUBSET Rows, BeginMutation(s, T) PROVE ServiceInv'
  BY <1>2, BeginKeepsInv
<1>3. ASSUME NEW s \in Sessions, NEW k \in {"read", "rewriting"}, BeginRead(s, k)
      PROVE ServiceInv'
  BY <1>3, BeginKeepsInv
<1>4. ASSUME NEW s \in Sessions, Proceed(s) PROVE ServiceInv'
  BY <1>4, AcquireKeepsInv, LoadKeepsInv, CommitKeepsInv DEF Proceed
<1>5. ASSUME NEW s \in Sessions, Rollback(s) PROVE ServiceInv'
  BY <1>5, RollbackKeepsInv
<1>6. QED  BY <1>1, <1>2, <1>3, <1>4, <1>5 DEF ServiceNext

(***************************************************************************)
(* Theorems                                                                *)
(***************************************************************************)

\* Every step of the service keeps the invariant.
THEOREM ServiceInvariant == ServiceSpec => []ServiceInv
<1>1. ServiceInv /\ [ServiceNext]_serviceVars => ServiceInv'
  BY StepKeepsInv
<1>2. QED  BY <1>1, ServiceInitInv, PTL DEF ServiceSpec

\* The copy a mutation works on is never stale but for a rewriting read that
\* committed beside it.
THEOREM MutationsSeeCurrentState == ServiceSpec => []MutationViewCurrent
BY ServiceInvariant, PTL DEF ServiceInv

\* The service implements the atomic store: each of its steps is one call that
\* takes effect on the rows as they are, or changes no row, or is taken by a
\* call that has crossed a rewriting read and then invents no effect.
THEOREM ServiceIsAtomic == ServiceSpec => CallsAreAtomic
<1> DEFINE exposed == \E s \in Sessions : Crossed(s)
<1>1. ServiceInit => Store!StoreInit
  BY DEF ServiceInit, Store!StoreInit, Crossed
<1>2. ServiceInv /\ ServiceInv' /\ [ServiceNext]_serviceVars
      => [Store!StoreNext]_<<db, applied, exposed>>
  <2> SUFFICES ASSUME ServiceInv, ServiceInv', [ServiceNext]_serviceVars
               PROVE  Store!StoreNext \/ UNCHANGED <<db, applied, exposed>>
    OBVIOUS
  <2>1. exposed' \in BOOLEAN
    OBVIOUS
  <2>2. ASSUME NEW s \in Sessions, Commit(s) PROVE Store!StoreNext
    <3>1. targets[s] \in SUBSET Rows
      BY DEF ServiceInv, ServiceTypeOK
    <3>2. applied' = Store!OneMore(applied, targets[s])
      BY <2>2 DEF Commit, Store!OneMore
    <3>3. CASE Crossed(s)
      <4>1. db' \in [Rows -> Nat] /\ \A r \in Rows : db'[r] <= applied'[r]
        BY DEF ServiceInv, ServiceTypeOK, NothingInvented
      <4>2. Store!Overwrite(targets[s])
        BY <3>2, <3>3, <4>1 DEF Store!Overwrite
      <4>3. QED  BY <2>1, <3>1, <4>2 DEF Store!StoreNext
    <3>4. CASE ~Crossed(s)
      <4>1. db' = Store!OneMore(db, targets[s])
        BY <2>2, <3>4, CommitIsApply DEF Store!OneMore
      <4>2. Store!Apply(targets[s])
        BY <3>2, <4>1 DEF Store!Apply
      <4>3. QED  BY <2>1, <3>1, <4>2 DEF Store!StoreNext
    <3>5. QED  BY <3>3, <3>4
  <2>3. ASSUME UNCHANGED <<db, applied>>
        PROVE  Store!StoreNext
    <3>1. db = [r \in Rows |-> db[r]] /\ applied = [r \in Rows |-> applied[r]]
      BY DEF ServiceInv, ServiceTypeOK
    <3>2. Store!Apply({})
      BY <2>3, <3>1 DEF Store!Apply, Store!OneMore
    <3>3. QED  BY <2>1, <3>2 DEF Store!StoreNext
  <2>4. QED
    BY <2>2, <2>3 DEF ServiceNext, Proceed, BeginMutation, BeginRead, AcquireLock, LoadRow,
       Rollback, serviceVars
<1>3. QED
  BY <1>1, <1>2, ServiceInvariant, PTL
  DEF ServiceSpec, CallsAreAtomic, Store!StoreSpec, Store!storeVars
=============================================================================
