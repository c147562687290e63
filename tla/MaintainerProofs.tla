---------------------------- MODULE MaintainerProofs ----------------------------
(* Theorems about Maintainer, for any tasks, workers, pools and capacities.  *)
EXTENDS Maintainer, TLAPS, FiniteSetTheorems

-----------------------------------------------------------------------------
(* Sums as numbers of units held                                             *)

\* The units of one task are as many as it needs.
LEMMA OneTask ==
    ASSUME NEW t, NEW n \in Nat
    PROVE  /\ IsFiniteSet({t} \X (1..n))
           /\ Cardinality({t} \X (1..n)) = n
<1>1. IsFiniteSet({t}) /\ Cardinality({t}) = 1
  BY FS_Singleton
<1>2. IsFiniteSet(1..n) /\ Cardinality(1..n) = n
  BY FS_Interval
<1>3. /\ IsFiniteSet({t} \X (1..n))
      /\ Cardinality({t} \X (1..n)) = Cardinality({t}) * Cardinality(1..n)
  BY <1>1, <1>2, FS_Product
<1> QED BY <1>1, <1>2, <1>3

\* Finitely many tasks hold finitely many units.
LEMMA UnitsFinite ==
    ASSUME NEW who, IsFiniteSet(who), NEW need, \A x \in who : need[x] \in Nat
    PROVE  /\ IsFiniteSet(Units(who, need))
           /\ Total(who, need) \in Nat
<1> DEFINE blocks == {{x} \X (1..need[x]) : x \in who}
           f == [x \in who |-> {x} \X (1..need[x])]
<1>1. f \in Surjection(who, blocks)
  BY DEF Surjection
<1>2. IsFiniteSet(blocks)
  BY <1>1, FS_Surjection
<1>3. ASSUME NEW x \in who PROVE IsFiniteSet({x} \X (1..need[x]))
  BY OneTask
<1>4. IsFiniteSet(UNION blocks)
  BY <1>2, <1>3, FS_UNION
<1> QED BY <1>4, FS_CardinalityType DEF Units, Total

\* Fewer tasks with the same needs hold no more.
LEMMA TotalShrinks ==
    ASSUME NEW who, IsFiniteSet(who), NEW need, \A x \in who : need[x] \in Nat,
           NEW fewer \in SUBSET who, NEW same, \A x \in fewer : same[x] = need[x]
    PROVE  Total(fewer, same) <= Total(who, need)
<1>1. Units(fewer, same) \subseteq Units(who, need)
  BY DEF Units
<1>2. IsFiniteSet(Units(who, need))
  BY UnitsFinite
<1> QED BY <1>1, <1>2, FS_Subset DEF Total

\* One more task adds at most what it needs.
LEMMA TotalGrows ==
    ASSUME NEW who, IsFiniteSet(who), NEW need, \A x \in who : need[x] \in Nat,
           NEW t, NEW more, more[t] \in Nat, \A x \in who \ {t} : more[x] = need[x]
    PROVE  Total(who \cup {t}, more) <= Total(who, need) + more[t]
<1> DEFINE old == Units(who, need)
           new == {t} \X (1..more[t])
<1>1. Units(who \cup {t}, more) \subseteq old \cup new
  BY DEF Units
<1>2. IsFiniteSet(old) /\ Cardinality(old) \in Nat
  BY UnitsFinite DEF Total
<1>3. IsFiniteSet(new) /\ Cardinality(new) = more[t]
  BY OneTask
<1>4. /\ IsFiniteSet(old \cup new)
      /\ Cardinality(old \cup new)
            = Cardinality(old) + Cardinality(new) - Cardinality(old \cap new)
  BY <1>2, <1>3, FS_Union
<1>5. Cardinality(old \cap new) \in Nat
  <2>1. IsFiniteSet(old \cap new)
    BY <1>2, FS_Subset
  <2> QED BY <2>1, FS_CardinalityType
<1>6. Cardinality(Units(who \cup {t}, more)) <= Cardinality(old \cup new)
  BY <1>1, <1>4, FS_Subset
<1>7. Cardinality(Units(who \cup {t}, more)) \in Nat
  <2>1. IsFiniteSet(Units(who \cup {t}, more))
    BY <1>1, <1>4, FS_Subset
  <2> QED BY <2>1, FS_CardinalityType
<1>8. Cardinality(old \cup new) \in Nat
  BY <1>4, FS_CardinalityType
<1> QED BY <1>2, <1>3, <1>4, <1>5, <1>6, <1>7, <1>8 DEF Total

-----------------------------------------------------------------------------
(* What the operators on the tables return                                   *)

\* A table from which rows have been deleted, or whose rows were renewed.
Shrunk(tbl) ==
    /\ DOMAIN tbl \subseteq DOMAIN reservations
    /\ \A t \in DOMAIN tbl :
          /\ tbl[t].worker = reservations[t].worker
          /\ tbl[t].pool = reservations[t].pool
          /\ tbl[t].spec = reservations[t].spec

TableOK(tbl) ==
    /\ DOMAIN tbl \subseteq Task
    /\ \A t \in DOMAIN tbl : tbl[t] \in Reservation

LEMMA NeedType ==
    ASSUME NEW tbl, TableOK(tbl), NEW r \in Resource, NEW t \in DOMAIN tbl
    PROVE  tbl[t].spec.need[r] \in Nat
BY DEF TableOK, Reservation, Placement

LEMMA PoolFinite ==
    ASSUME NEW tbl, TableOK(tbl), NEW p
    PROVE  /\ IsFiniteSet(DOMAIN tbl)
           /\ IsFiniteSet(InPool(tbl, p))
           /\ PoolJobs(tbl, p) \in Nat
<1>1. IsFiniteSet(DOMAIN tbl)
  BY MaintainerAssumption, FS_Subset DEF TableOK
<1>2. IsFiniteSet(InPool(tbl, p))
  BY <1>1, FS_Subset DEF InPool
<1> QED BY <1>1, <1>2, FS_CardinalityType DEF PoolJobs

LEMMA LoadType ==
    ASSUME NEW tbl, TableOK(tbl), NEW p, NEW r \in Resource
    PROVE  PoolLoad(tbl, p, r) \in Nat
<1> DEFINE need == [t \in DOMAIN tbl |-> tbl[t].spec.need[r]]
<1>1. \A x \in InPool(tbl, p) : need[x] \in Nat
  BY NeedType DEF InPool
<1>2. IsFiniteSet(InPool(tbl, p))
  BY PoolFinite
<1>3. Total(InPool(tbl, p), need) \in Nat
  BY <1>1, <1>2, UnitsFinite
<1> QED BY <1>3 DEF PoolLoad

LEMMA DirectType ==
    ASSUME direct \subseteq Command, NEW r \in Resource
    PROVE  DirectLoad(r) \in Nat /\ Cardinality(direct) \in Nat
<1> DEFINE need == [c \in Command |-> CommandNeed[c][r]]
<1>1. IsFiniteSet(direct)
  BY MaintainerAssumption, FS_Subset
<1>2. \A x \in direct : need[x] \in Nat
  BY MaintainerAssumption
<1>3. Total(direct, need) \in Nat
  BY <1>1, <1>2, UnitsFinite
<1> QED BY <1>1, <1>3, FS_CardinalityType DEF DirectLoad

\* Deletions and renewals lower every load and every count.
LEMMA ShrunkLoads ==
    ASSUME TableOK(reservations), NEW tbl, Shrunk(tbl)
    PROVE  /\ \A p, r : r \in Resource => PoolLoad(tbl, p, r) <= PoolLoad(reservations, p, r)
           /\ \A p : PoolJobs(tbl, p) <= PoolJobs(reservations, p)
           /\ \A q : QuotaJobs(tbl, q) <= QuotaJobs(reservations, q)
<1>1. ASSUME NEW p, NEW r \in Resource
      PROVE  PoolLoad(tbl, p, r) <= PoolLoad(reservations, p, r)
  <2> DEFINE all == [t \in DOMAIN reservations |-> reservations[t].spec.need[r]]
             some == [t \in DOMAIN tbl |-> tbl[t].spec.need[r]]
             who == InPool(reservations, p)
             fewer == InPool(tbl, p)
  <2>1. fewer \in SUBSET who /\ \A x \in fewer : some[x] = all[x]
    BY DEF Shrunk, InPool
  <2>2. IsFiniteSet(who)
    BY PoolFinite
  <2>3. \A x \in who : all[x] \in Nat
    BY NeedType DEF InPool
  <2> HIDE DEF all, some, who, fewer
  <2>4. Total(fewer, some) <= Total(who, all)
    BY <2>1, <2>2, <2>3, TotalShrinks
  <2> QED BY <2>4 DEF PoolLoad, all, some, who, fewer
<1>2. ASSUME NEW p
      PROVE  PoolJobs(tbl, p) <= PoolJobs(reservations, p)
  <2>1. InPool(tbl, p) \in SUBSET InPool(reservations, p)
    BY DEF Shrunk, InPool
  <2>2. IsFiniteSet(InPool(reservations, p))
    BY PoolFinite
  <2> QED BY <2>1, <2>2, FS_Subset DEF PoolJobs
<1>3. ASSUME NEW q
      PROVE  QuotaJobs(tbl, q) <= QuotaJobs(reservations, q)
  <2> DEFINE some == {t \in DOMAIN tbl : workers[tbl[t].worker].quota = q}
             all == {t \in DOMAIN reservations : workers[reservations[t].worker].quota = q}
  <2>1. some \in SUBSET all
    BY DEF Shrunk
  <2>2. IsFiniteSet(all)
    <3>1. IsFiniteSet(DOMAIN reservations)
      BY PoolFinite
    <3> QED BY <3>1, FS_Subset
  <2> QED BY <2>1, <2>2, FS_Subset DEF QuotaJobs
<1> QED BY <1>1, <1>2, <1>3

\* The sweep deletes rows.
LEMMA SweptShrunk ==
    ASSUME TableOK(reservations)
    PROVE  Shrunk(Swept) /\ TableOK(Swept)
BY DEF Shrunk, TableOK, Swept, Without

-----------------------------------------------------------------------------
(* Type correctness                                                          *)

\* A worker is what it was last registered with, apart from its state.
SameOffer(row, c) ==
    /\ row.pool = c.pool /\ row.quota = c.quota
    /\ row.shared = c.shared /\ row.local = c.local
    /\ row.max_concurrency = c.max_concurrency
    /\ row.cap = c.cap

Registered == \A w \in DOMAIN workers : \E c \in Configs[w] : SameOffer(workers[w], c)

TInv == TypeOK /\ Registered

LEMMA TypeGivesTable ==
    ASSUME TypeOK PROVE TableOK(reservations)
BY DEF TypeOK, TableOK

\* Every step but a grant deletes or renews.
LEMMA OtherStepsShrink ==
    ASSUME TypeOK, [Next]_vars,
           ~\E t \in Task : \E spec \in SpecsOf[t] : Grant(t, spec)
    PROVE  Shrunk(reservations')
<1>0. TableOK(reservations)
  BY TypeGivesTable
<1>1. Shrunk(Swept) /\ Shrunk(reservations)
  BY <1>0, SweptShrunk DEF Shrunk
<1>2. ASSUME NEW t \in Task, RouteAndReserve(t)
      PROVE  Shrunk(reservations')
  <2>1. reservations' = Swept
    BY <1>2 DEF RouteAndReserve, Reuse, Refuse
  <2> QED BY <2>1, <1>1
<1>3. ASSUME NEW t \in Task, Release(t)
      PROVE  Shrunk(reservations')
  BY <1>3 DEF Release, Without, Shrunk
<1>4. ASSUME NEW t \in Task, Heartbeat(t) \/ Expire(t)
      PROVE  Shrunk(reservations')
  <2>1. DOMAIN reservations' = DOMAIN reservations
    BY <1>4 DEF Heartbeat, Expire
  <2>2. ASSUME NEW u \in DOMAIN reservations
        PROVE  /\ reservations'[u].worker = reservations[u].worker
               /\ reservations'[u].pool = reservations[u].pool
               /\ reservations'[u].spec = reservations[u].spec
    <3>1. reservations[u] \in Reservation
      BY <1>0 DEF TableOK
    <3> QED BY <1>4, <3>1 DEF Heartbeat, Expire, Reservation
  <2> QED BY <2>1, <2>2 DEF Shrunk
<1>5. CASE Snapshot
  BY <1>1, <1>5 DEF Snapshot
<1>6. CASE reservations' = reservations
  BY <1>1, <1>6
<1> QED
  BY <1>2, <1>3, <1>4, <1>5, <1>6
  DEF Next, TaskStep, WorkerStep, UpsertWorker, UpdateWorkerState, CommandAdmitted,
      CommandEnds, vars

\* What is reserved by a grant.
LEMMA GrantedRow ==
    ASSUME TInv, NEW t \in Task, NEW spec \in SpecsOf[t], Grant(t, spec)
    PROVE  \E w \in DOMAIN workers :
              /\ Fits(spec, w) /\ HasSlot(Swept, w) /\ HasCapacity(Swept, spec, w)
              /\ t \notin DOMAIN Swept
              /\ reservations' = Put(Swept, t, NewRow(w, spec))
              /\ workers' = workers /\ direct' = direct
BY DEF Grant, Best, Candidates

LEMMA RowsAfterGrant ==
    ASSUME TypeOK, NEW w \in DOMAIN workers, NEW t \in Task, NEW spec \in SpecsOf[t],
           NEW tbl, tbl = Put(Swept, t, NewRow(w, spec))
    PROVE  /\ TableOK(tbl)
           /\ DOMAIN tbl = DOMAIN Swept \cup {t}
           /\ tbl[t].worker = w /\ tbl[t].pool = workers[w].pool /\ tbl[t].spec = spec
           /\ \A u \in DOMAIN Swept \ {t} : tbl[u] = Swept[u]
<1>1. TableOK(Swept)
  BY TypeGivesTable, SweptShrunk
<1>2. workers[w] \in WorkerRow /\ w \in Worker
  BY DEF TypeOK
<1>3. spec \in Placement
  BY MaintainerAssumption
<1> DEFINE row == NewRow(w, spec)
<1>4. row \in Reservation
  BY <1>2, <1>3 DEF Reservation, WorkerRow, NewRow
<1>5. row.worker = w /\ row.pool = workers[w].pool /\ row.spec = spec
  BY DEF NewRow
<1> HIDE DEF row
<1>6. tbl = Put(Swept, t, row)
  BY DEF row
<1>7. /\ DOMAIN tbl = DOMAIN Swept \cup {t}
      /\ tbl[t] = row
      /\ \A u \in DOMAIN Swept \ {t} : tbl[u] = Swept[u]
  BY <1>6 DEF Put
<1>8. TableOK(tbl)
  BY <1>1, <1>4, <1>7 DEF TableOK
<1> QED BY <1>5, <1>7, <1>8

\* The reservations keep their type, and their workers stay registered.
LEMMA TableStep ==
    ASSUME TInv, [Next]_vars
    PROVE  /\ TableOK(reservations')
           /\ \A t \in DOMAIN reservations' : reservations'[t].worker \in DOMAIN workers
<1>0. TableOK(reservations)
  BY TypeGivesTable DEF TInv
<1>1. \A t \in DOMAIN reservations : reservations[t].worker \in DOMAIN workers
  BY DEF TInv, TypeOK
<1>2. TableOK(Swept) /\ Shrunk(Swept)
  BY <1>0, SweptShrunk
<1>3. ASSUME NEW t \in Task, NEW spec \in SpecsOf[t], Grant(t, spec)
      PROVE  /\ TableOK(reservations')
             /\ \A u \in DOMAIN reservations' : reservations'[u].worker \in DOMAIN workers
  <2>1. PICK w \in DOMAIN workers :
           reservations' = Put(Swept, t, NewRow(w, spec))
    BY <1>3, GrantedRow
  <2>2. /\ TableOK(reservations')
        /\ DOMAIN reservations' = DOMAIN Swept \cup {t}
        /\ reservations'[t].worker = w
        /\ \A u \in DOMAIN Swept \ {t} : reservations'[u] = Swept[u]
    BY <2>1, RowsAfterGrant DEF TInv
  <2> QED BY <2>2, <1>1, <1>2 DEF Shrunk
<1>4. CASE ~\E t \in Task : \E spec \in SpecsOf[t] : Grant(t, spec)
  <2>1. Shrunk(reservations')
    BY <1>4, OtherStepsShrink DEF TInv
  <2>2. ASSUME NEW t \in DOMAIN reservations'
        PROVE  reservations'[t] \in Reservation
    <3>1. CASE reservations' = Swept
      BY <3>1, <1>2 DEF TableOK
    <3>2. CASE \E u \in Task : Release(u)
      BY <3>2, <1>0 DEF Release, Without, TableOK
    <3>3. ASSUME NEW u \in Task, Heartbeat(u) \/ Expire(u)
          PROVE  reservations'[t] \in Reservation
      <4>1. t \in DOMAIN reservations
        BY <2>1 DEF Shrunk
      <4>2. reservations[t] \in Reservation
        BY <4>1, <1>0 DEF TableOK
      <4>3. PICK b \in BOOLEAN : reservations' = [reservations EXCEPT ![u].fresh = b]
        BY <3>3 DEF Heartbeat, Expire
      <4>4. [reservations[t] EXCEPT !.fresh = b] \in Reservation
        BY <4>2 DEF Reservation
      <4>5. reservations'[t] = IF t = u THEN [reservations[t] EXCEPT !.fresh = b]
                               ELSE reservations[t]
        BY <4>1, <4>3
      <4> QED BY <4>2, <4>4, <4>5
    <3>4. CASE reservations' = reservations
      BY <3>4, <1>0 DEF TableOK
    <3> QED
      BY <3>1, <3>2, <3>3, <3>4, <1>4
      DEF Next, TaskStep, WorkerStep, RouteAndReserve, Reuse, Refuse, Snapshot,
          UpsertWorker, UpdateWorkerState, CommandAdmitted, CommandEnds, vars
  <2> QED BY <2>1, <2>2, <1>0, <1>1 DEF Shrunk, TableOK
<1> QED BY <1>3, <1>4

\* The registry only grows, and only by rows of the instance.
LEMMA RegistryStep ==
    ASSUME TInv, [Next]_vars
    PROVE  /\ DOMAIN workers \subseteq DOMAIN workers'
           /\ DOMAIN workers' \subseteq Worker
           /\ \A w \in DOMAIN workers' : workers'[w] \in WorkerRow
           /\ Registered'
<1>1. /\ DOMAIN workers \subseteq Worker
      /\ \A w \in DOMAIN workers : workers[w] \in WorkerRow
  BY DEF TInv, TypeOK
<1>2. ASSUME NEW v \in Worker, UpsertWorker(v)
      PROVE  /\ DOMAIN workers \subseteq DOMAIN workers'
             /\ DOMAIN workers' \subseteq Worker
             /\ \A w \in DOMAIN workers' : workers'[w] \in WorkerRow
             /\ Registered'
  <2>1. PICK row \in Configs[v] : workers' = Put(workers, v, row)
    BY <1>2 DEF UpsertWorker
  <2>2. row \in WorkerRow /\ SameOffer(row, row)
    BY MaintainerAssumption DEF SameOffer
  <2>3. /\ DOMAIN workers' = DOMAIN workers \cup {v}
        /\ \A w \in DOMAIN workers' : workers'[w] = IF w = v THEN row ELSE workers[w]
    BY <2>1 DEF Put
  <2> QED BY <1>1, <2>2, <2>3 DEF TInv, Registered
<1>3. ASSUME NEW v \in Worker, UpdateWorkerState(v)
      PROVE  /\ DOMAIN workers \subseteq DOMAIN workers'
             /\ DOMAIN workers' \subseteq Worker
             /\ \A w \in DOMAIN workers' : workers'[w] \in WorkerRow
             /\ Registered'
  <2>1. PICK active \in BOOLEAN : workers' = [workers EXCEPT ![v].active = active]
    BY <1>3 DEF UpdateWorkerState
  <2>2. DOMAIN workers' = DOMAIN workers
    BY <2>1
  <2>3. ASSUME NEW w \in DOMAIN workers
        PROVE  workers'[w] \in WorkerRow /\ \A c : SameOffer(workers[w], c) => SameOffer(workers'[w], c)
    <3>1. workers[w] \in WorkerRow
      BY <1>1
    <3> QED BY <2>1, <3>1 DEF WorkerRow, SameOffer
  <2> QED BY <1>1, <2>2, <2>3 DEF TInv, Registered
<1>4. CASE workers' = workers
  BY <1>1, <1>4 DEF TInv, Registered
<1> QED
  BY <1>2, <1>3, <1>4
  DEF Next, TaskStep, WorkerStep, RouteAndReserve, Reuse, Refuse, Grant, Release,
      Heartbeat, Expire, Snapshot, CommandAdmitted, CommandEnds, vars

LEMMA TInvInit == Init => TInv
BY DEF Init, TInv, TypeOK, Registered

LEMMA TInvStep == TInv /\ [Next]_vars => TInv'
<1> SUFFICES ASSUME TInv, [Next]_vars PROVE TInv'
  OBVIOUS
<1>1. /\ TableOK(reservations')
      /\ \A t \in DOMAIN reservations' : reservations'[t].worker \in DOMAIN workers
  BY TableStep
<1>2. /\ DOMAIN workers \subseteq DOMAIN workers'
      /\ DOMAIN workers' \subseteq Worker
      /\ \A w \in DOMAIN workers' : workers'[w] \in WorkerRow
      /\ Registered'
  BY RegistryStep
<1>3. workers' = [w \in DOMAIN workers' |-> workers'[w]]
  <2>1. workers = [w \in DOMAIN workers |-> workers[w]]
    BY DEF TInv, TypeOK
  <2> QED
    BY <2>1
    DEF Next, TaskStep, WorkerStep, UpsertWorker, UpdateWorkerState, Put, RouteAndReserve,
        Reuse, Refuse, Grant, Release, Heartbeat, Expire, Snapshot, CommandAdmitted,
        CommandEnds, vars
<1>4. reservations' = [t \in DOMAIN reservations' |-> reservations'[t]]
  <2>1. reservations = [t \in DOMAIN reservations |-> reservations[t]]
    BY DEF TInv, TypeOK
  <2> QED
    BY <2>1
    DEF Next, TaskStep, WorkerStep, UpsertWorker, UpdateWorkerState, Put, RouteAndReserve,
        Reuse, Refuse, Grant, Release, Heartbeat, Expire, Snapshot, CommandAdmitted,
        CommandEnds, Swept, Without, vars
<1>5. direct' \subseteq Command
  BY DEF TInv, TypeOK, Next, TaskStep, WorkerStep, UpsertWorker, UpdateWorkerState,
         RouteAndReserve, Reuse, Refuse, Grant, Release, Heartbeat, Expire, Snapshot,
         CommandAdmitted, CommandEnds, vars
<1> QED BY <1>1, <1>2, <1>3, <1>4, <1>5 DEF TInv, TypeOK, TableOK

LEMMA TInvAlways == Spec => []TInv
BY TInvInit, TInvStep, PTL DEF Spec

\* The tables keep their types, and no reservation names a worker that is not
\* registered, although the registry is rewritten while reservations are open.
THEOREM TypeCorrect == Spec => []TypeOK
<1>1. TInv => TypeOK
  BY DEF TInv
<1> QED BY <1>1, TInvAlways, PTL

-----------------------------------------------------------------------------
(* Capacity                                                                  *)

\* A grant loads its own pool by what the task needs, and no other.
LEMMA GrantLoads ==
    ASSUME TypeOK, NEW w \in DOMAIN workers, NEW t \in Task, NEW spec \in SpecsOf[t],
           NEW tbl, tbl = Put(Swept, t, NewRow(w, spec)),
           t \notin DOMAIN Swept
    PROVE  /\ \A p, r : r \in Resource /\ p # workers[w].pool =>
                 PoolLoad(tbl, p, r) <= PoolLoad(Swept, p, r)
           /\ \A r \in Resource :
                 PoolLoad(tbl, workers[w].pool, r)
                    <= PoolLoad(Swept, workers[w].pool, r) + spec.need[r]
           /\ \A p : p # workers[w].pool => PoolJobs(tbl, p) <= PoolJobs(Swept, p)
           /\ PoolJobs(tbl, workers[w].pool) <= PoolJobs(Swept, workers[w].pool) + 1
<1>1. /\ TableOK(tbl)
      /\ DOMAIN tbl = DOMAIN Swept \cup {t}
      /\ tbl[t].pool = workers[w].pool /\ tbl[t].spec = spec
      /\ \A u \in DOMAIN Swept \ {t} : tbl[u] = Swept[u]
  BY RowsAfterGrant
<1>2. TableOK(Swept)
  BY TypeGivesTable, SweptShrunk
<1>3. ASSUME NEW p, p # workers[w].pool
      PROVE  InPool(tbl, p) = InPool(Swept, p)
  BY <1>1, <1>3 DEF InPool
<1>4. InPool(tbl, workers[w].pool) = InPool(Swept, workers[w].pool) \cup {t}
  BY <1>1 DEF InPool
<1>5. ASSUME NEW p, NEW r \in Resource, p # workers[w].pool
      PROVE  PoolLoad(tbl, p, r) <= PoolLoad(Swept, p, r)
  <2> DEFINE who == InPool(Swept, p)
             need == [u \in DOMAIN Swept |-> Swept[u].spec.need[r]]
             same == [u \in DOMAIN tbl |-> tbl[u].spec.need[r]]
  <2>1. \A x \in who : same[x] = need[x] /\ need[x] \in Nat
    BY <1>1, <1>2, NeedType DEF InPool
  <2>2. IsFiniteSet(who)
    BY <1>2, PoolFinite
  <2> HIDE DEF who, need, same
  <2>3. Total(who, same) <= Total(who, need)
    BY <2>1, <2>2, TotalShrinks
  <2> QED BY <2>3, <1>3, <1>5 DEF PoolLoad, who, need, same
<1>6. ASSUME NEW r \in Resource
      PROVE  PoolLoad(tbl, workers[w].pool, r)
                <= PoolLoad(Swept, workers[w].pool, r) + spec.need[r]
  <2> DEFINE who == InPool(Swept, workers[w].pool)
             need == [u \in DOMAIN Swept |-> Swept[u].spec.need[r]]
             more == [u \in DOMAIN tbl |-> tbl[u].spec.need[r]]
  <2>1. /\ \A x \in who : need[x] \in Nat
        /\ \A x \in who \ {t} : more[x] = need[x]
    BY <1>1, <1>2, NeedType DEF InPool
  <2>2. IsFiniteSet(who)
    BY <1>2, PoolFinite
  <2>3. more[t] = spec.need[r] /\ more[t] \in Nat
    BY <1>1, NeedType
  <2> HIDE DEF who, need, more
  <2>4. Total(who \cup {t}, more) <= Total(who, need) + more[t]
    BY <2>1, <2>2, <2>3, TotalGrows
  <2> QED BY <2>3, <2>4, <1>4 DEF PoolLoad, who, need, more
<1>7. ASSUME NEW p
      PROVE  PoolJobs(Swept, p) \in Nat
  BY <1>2, PoolFinite
<1>8. PoolJobs(tbl, workers[w].pool) <= PoolJobs(Swept, workers[w].pool) + 1
  <2>1. IsFiniteSet(InPool(Swept, workers[w].pool))
    BY <1>2, PoolFinite
  <2> DEFINE who == InPool(Swept, workers[w].pool)
  <2>a. Cardinality(who) \in Nat
    BY <1>7 DEF PoolJobs
  <2> HIDE DEF who
  <2>b. Cardinality(who \cup {t}) <= Cardinality(who) + 1
    <3>1. IsFiniteSet(who)
      BY <2>1 DEF who
    <3>2. Cardinality(who \cup {t})
            = IF t \in who THEN Cardinality(who) ELSE Cardinality(who) + 1
      BY <3>1, FS_AddElement
    <3> QED BY <3>2, <2>a
  <2>2. Cardinality(InPool(Swept, workers[w].pool) \cup {t})
           <= Cardinality(InPool(Swept, workers[w].pool)) + 1
    BY <2>b DEF who
  <2> QED BY <2>2, <1>4 DEF PoolJobs
<1>9. ASSUME NEW p, p # workers[w].pool
      PROVE  PoolJobs(tbl, p) <= PoolJobs(Swept, p)
  <2>1. PoolJobs(tbl, p) = PoolJobs(Swept, p)
    BY <1>3, <1>9 DEF PoolJobs
  <2> QED BY <2>1, <1>7
<1> QED BY <1>5, <1>6, <1>8, <1>9

CapacityInv == PoolWithinCapacity /\ PoolJobsBounded

\* The limits that a grant has been measured against are those of the instance.
LEMMA GrantWithin ==
    ASSUME TInv, NEW w \in DOMAIN workers, NEW spec, spec \in Placement,
           HasSlot(Swept, w), HasCapacity(Swept, spec, w)
    PROVE  \E c \in PoolRows(workers[w].pool) :
              /\ c.quota = workers[w].quota
              /\ c.max_concurrency \in Nat
              /\ PoolJobs(Swept, workers[w].pool) + 1 <= c.max_concurrency
              /\ QuotaJobs(Swept, workers[w].quota) + 1 <= c.max_concurrency
              /\ \A r \in Resource : SharedPool(workers[w].pool, r) =>
                    /\ c.cap[r] \in Nat
                    /\ PoolLoad(Swept, workers[w].pool, r) + spec.need[r] <= c.cap[r]
<1>1. TableOK(Swept)
  BY TypeGivesTable, SweptShrunk DEF TInv
<1>2. PICK c \in Configs[w] : SameOffer(workers[w], c)
  BY DEF TInv, Registered
<1>3. w \in Worker /\ c \in WorkerRow
  BY <1>2, MaintainerAssumption DEF TInv, TypeOK
<1>4. c \in PoolRows(workers[w].pool)
  BY <1>2, <1>3 DEF PoolRows, SameOffer
<1>5. PoolJobs(Swept, workers[w].pool) \in Nat
  BY <1>1, PoolFinite
<1>6. QuotaJobs(Swept, workers[w].quota) \in Nat
  <2>1. IsFiniteSet(DOMAIN Swept)
    BY <1>1, PoolFinite
  <2>2. IsFiniteSet({t \in DOMAIN Swept : workers[Swept[t].worker].quota = workers[w].quota})
    BY <2>1, FS_Subset
  <2> QED BY <2>2, FS_CardinalityType DEF QuotaJobs
<1>7. Cardinality(direct) \in Nat
  <2>1. direct \subseteq Command /\ "ram" \in Resource
    BY DEF TInv, TypeOK, Resource
  <2> QED BY <2>1, DirectType
<1>8. c.max_concurrency \in Nat /\ workers[w].max_concurrency = c.max_concurrency
  BY <1>2, <1>3 DEF SameOffer, WorkerRow
<1>9. /\ PoolJobs(Swept, workers[w].pool) + 1 <= c.max_concurrency
      /\ QuotaJobs(Swept, workers[w].quota) + 1 <= c.max_concurrency
  <2>1. Jobs(Swept, w) \in Nat /\ PoolJobs(Swept, workers[w].pool) <= Jobs(Swept, w)
    BY <1>5, <1>7 DEF Jobs
  <2> QED BY <2>1, <1>5, <1>6, <1>8 DEF HasSlot
<1>10. ASSUME NEW r \in Resource, SharedPool(workers[w].pool, r)
       PROVE  /\ c.cap[r] \in Nat
              /\ PoolLoad(Swept, workers[w].pool, r) + spec.need[r] <= c.cap[r]
  <2>1. c.shared /\ c.cap[r] # NoLimit
    BY <1>4, <1>10 DEF SharedPool
  <2>2. c.cap[r] \in Nat
    BY <2>1, <1>3 DEF WorkerRow
  <2>3. workers[w].shared /\ workers[w].cap[r] = c.cap[r]
    BY <1>2, <2>1 DEF SameOffer
  <2>4. Usage(Swept, w, r) + spec.need[r] <= c.cap[r]
    BY <2>1, <2>3 DEF HasCapacity, Accounted
  <2>5. PoolLoad(Swept, workers[w].pool, r) \in Nat
    BY <1>1, LoadType
  <2>6. DirectLoad(r) \in Nat
    BY DirectType DEF TInv, TypeOK
  <2>7. /\ PoolLoad(Swept, workers[w].pool, r) <= Usage(Swept, w, r)
        /\ Usage(Swept, w, r) \in Nat
    BY <2>5, <2>6 DEF Usage
  <2>8. spec.need[r] \in Nat
    BY DEF Placement
  <2> QED BY <2>2, <2>4, <2>5, <2>7, <2>8
<1> QED BY <1>2, <1>4, <1>8, <1>9, <1>10 DEF SameOffer

LEMMA CapacityInit == Init => CapacityInv
<1> SUFFICES ASSUME Init PROVE CapacityInv
  OBVIOUS
<1>1. \A p : InPool(reservations, p) = {}
  BY DEF Init, InPool
<1>2. \A p : PoolJobs(reservations, p) = 0
  BY <1>1, FS_EmptySet DEF PoolJobs
<1>3. \A p, r : PoolLoad(reservations, p, r) = 0
  BY <1>1, FS_EmptySet DEF PoolLoad, Total, Units
<1> QED BY <1>2, <1>3 DEF CapacityInv, PoolWithinCapacity, PoolJobsBounded

\* Loads that do not rise stay within a limit.
LEMMA CapacityShrinks ==
    ASSUME TInv, CapacityInv, Shrunk(reservations'), TableOK(reservations')
    PROVE  CapacityInv'
<1>0. TableOK(reservations)
  BY TypeGivesTable DEF TInv
<1>1. /\ \A p, r : r \in Resource => PoolLoad(reservations', p, r) <= PoolLoad(reservations, p, r)
      /\ \A p : PoolJobs(reservations', p) <= PoolJobs(reservations, p)
  BY <1>0, ShrunkLoads
<1>2. ASSUME NEW p \in Pool, NEW r \in Resource, SharedPool(p, r)
      PROVE  \/ PoolLoad(reservations', p, r) = 0
             \/ \E c \in PoolRows(p) : PoolLoad(reservations', p, r) <= c.cap[r]
  <2>1. /\ PoolLoad(reservations', p, r) \in Nat
        /\ PoolLoad(reservations, p, r) \in Nat
    BY <1>0, LoadType
  <2>2. CASE PoolLoad(reservations, p, r) = 0
    BY <2>1, <2>2, <1>1
  <2>3. CASE \E c \in PoolRows(p) : PoolLoad(reservations, p, r) <= c.cap[r]
    <3>1. PICK c \in PoolRows(p) : PoolLoad(reservations, p, r) <= c.cap[r]
      BY <2>3
    <3>2. c.cap[r] \in Nat
      <4>1. c \in WorkerRow
        BY MaintainerAssumption DEF PoolRows
      <4>2. c.cap[r] # NoLimit
        BY <1>2 DEF SharedPool
      <4> QED BY <4>1, <4>2 DEF WorkerRow
    <3> QED BY <3>1, <3>2, <2>1, <1>1
  <2> QED BY <2>2, <2>3, <1>2 DEF CapacityInv, PoolWithinCapacity
<1>3. ASSUME NEW p \in Pool
      PROVE  \/ PoolJobs(reservations', p) = 0
             \/ \E c \in PoolRows(p) : PoolJobs(reservations', p) <= c.max_concurrency
  <2>1. PoolJobs(reservations', p) \in Nat /\ PoolJobs(reservations, p) \in Nat
    BY <1>0, PoolFinite
  <2>2. CASE PoolJobs(reservations, p) = 0
    BY <2>1, <2>2, <1>1
  <2>3. CASE \E c \in PoolRows(p) : PoolJobs(reservations, p) <= c.max_concurrency
    <3>1. PICK c \in PoolRows(p) : PoolJobs(reservations, p) <= c.max_concurrency
      BY <2>3
    <3>2. c.max_concurrency \in Nat
      <4>1. c \in WorkerRow
        BY MaintainerAssumption DEF PoolRows
      <4> QED BY <4>1 DEF WorkerRow
    <3> QED BY <3>1, <3>2, <2>1, <1>1
  <2> QED BY <2>2, <2>3 DEF CapacityInv, PoolJobsBounded
<1> QED BY <1>2, <1>3 DEF CapacityInv, PoolWithinCapacity, PoolJobsBounded, SharedPool, PoolRows,
        PoolLoad, PoolJobs, Total, InPool, Units

\* A step keeps every pool within what was measured at its last grant.
LEMMA CapacityStep == TInv /\ CapacityInv /\ [Next]_vars => CapacityInv'
<1> SUFFICES ASSUME TInv, CapacityInv, [Next]_vars PROVE CapacityInv'
  OBVIOUS
<1>0. TableOK(reservations) /\ TableOK(reservations')
  BY TypeGivesTable, TableStep DEF TInv
<1>1. CASE ~\E t \in Task : \E spec \in SpecsOf[t] : Grant(t, spec)
  <2>1. Shrunk(reservations')
    BY <1>1, OtherStepsShrink DEF TInv
  <2> QED BY <1>0, <2>1, CapacityShrinks
<1>2. ASSUME NEW t \in Task, NEW spec \in SpecsOf[t], Grant(t, spec)
      PROVE  CapacityInv'
  <2>1. PICK w \in DOMAIN workers :
           /\ HasSlot(Swept, w) /\ HasCapacity(Swept, spec, w)
           /\ t \notin DOMAIN Swept
           /\ reservations' = Put(Swept, t, NewRow(w, spec))
    BY <1>2, GrantedRow
  <2>2. spec \in Placement
    BY MaintainerAssumption
  <2>3. TableOK(Swept) /\ Shrunk(Swept)
    BY <1>0, SweptShrunk
  <2> DEFINE home == workers[w].pool
  <2>4. /\ \A p, r : r \in Resource /\ p # home =>
              PoolLoad(reservations', p, r) <= PoolLoad(Swept, p, r)
        /\ \A r \in Resource :
              PoolLoad(reservations', home, r) <= PoolLoad(Swept, home, r) + spec.need[r]
        /\ \A p : p # home => PoolJobs(reservations', p) <= PoolJobs(Swept, p)
        /\ PoolJobs(reservations', home) <= PoolJobs(Swept, home) + 1
    BY <2>1, GrantLoads DEF TInv
  <2>5. PICK c \in PoolRows(home) :
           /\ c.max_concurrency \in Nat
           /\ PoolJobs(Swept, home) + 1 <= c.max_concurrency
           /\ \A r \in Resource : SharedPool(home, r) =>
                 /\ c.cap[r] \in Nat
                 /\ PoolLoad(Swept, home, r) + spec.need[r] <= c.cap[r]
    BY <2>1, <2>2, GrantWithin
  <2>6. /\ \A p, r : r \in Resource => PoolLoad(Swept, p, r) <= PoolLoad(reservations, p, r)
        /\ \A p : PoolJobs(Swept, p) <= PoolJobs(reservations, p)
    BY <1>0, <2>3, ShrunkLoads
  <2> HIDE DEF home
  <2>7. ASSUME NEW p \in Pool, NEW r \in Resource, SharedPool(p, r)
        PROVE  \/ PoolLoad(reservations', p, r) = 0
               \/ \E d \in PoolRows(p) : PoolLoad(reservations', p, r) <= d.cap[r]
    <3>1. /\ PoolLoad(reservations', p, r) \in Nat
          /\ PoolLoad(Swept, p, r) \in Nat
          /\ PoolLoad(reservations, p, r) \in Nat
      BY <1>0, <2>3, LoadType
    <3>2. spec.need[r] \in Nat
      BY <2>2 DEF Placement
    <3>3. CASE p = home
      <4>1. /\ c.cap[r] \in Nat
            /\ PoolLoad(Swept, p, r) + spec.need[r] <= c.cap[r]
            /\ PoolLoad(reservations', p, r) <= PoolLoad(Swept, p, r) + spec.need[r]
        BY <2>4, <2>5, <2>7, <3>3
      <4>2. PoolLoad(reservations', p, r) <= c.cap[r]
        BY <4>1, <3>1, <3>2
      <4> QED BY <4>2, <2>5, <3>3
    <3>4. CASE p # home
      <4>1. PoolLoad(reservations', p, r) <= PoolLoad(reservations, p, r)
        BY <3>1, <3>4, <2>4, <2>6
      <4>2. CASE PoolLoad(reservations, p, r) = 0
        BY <3>1, <4>1, <4>2
      <4>3. CASE \E d \in PoolRows(p) : PoolLoad(reservations, p, r) <= d.cap[r]
        <5>1. PICK d \in PoolRows(p) : PoolLoad(reservations, p, r) <= d.cap[r]
          BY <4>3
        <5>2. d.cap[r] \in Nat
          <6>1. d \in WorkerRow
            BY MaintainerAssumption DEF PoolRows
          <6>2. d.cap[r] # NoLimit
            BY <2>7 DEF SharedPool
          <6> QED BY <6>1, <6>2 DEF WorkerRow
        <5>3. PoolLoad(reservations', p, r) <= d.cap[r]
          BY <3>1, <4>1, <5>1, <5>2
        <5> QED BY <5>3
      <4> QED BY <4>2, <4>3, <2>7 DEF CapacityInv, PoolWithinCapacity
    <3> QED BY <3>3, <3>4
  <2>8. ASSUME NEW p \in Pool
        PROVE  \/ PoolJobs(reservations', p) = 0
               \/ \E d \in PoolRows(p) : PoolJobs(reservations', p) <= d.max_concurrency
    <3>1. /\ PoolJobs(reservations', p) \in Nat
          /\ PoolJobs(Swept, p) \in Nat
          /\ PoolJobs(reservations, p) \in Nat
      BY <1>0, <2>3, PoolFinite
    <3>2. CASE p = home
      <4>1. PoolJobs(reservations', p) <= c.max_concurrency
        BY <2>4, <2>5, <3>1, <3>2
      <4> QED BY <4>1, <2>5, <3>2
    <3>3. CASE p # home
      <4>1. PoolJobs(reservations', p) <= PoolJobs(reservations, p)
        BY <3>1, <3>3, <2>4, <2>6
      <4>2. CASE PoolJobs(reservations, p) = 0
        BY <3>1, <4>1, <4>2
      <4>3. CASE \E d \in PoolRows(p) : PoolJobs(reservations, p) <= d.max_concurrency
        <5>1. PICK d \in PoolRows(p) : PoolJobs(reservations, p) <= d.max_concurrency
          BY <4>3
        <5>2. d.max_concurrency \in Nat
          <6>1. d \in WorkerRow
            BY MaintainerAssumption DEF PoolRows
          <6> QED BY <6>1 DEF WorkerRow
        <5>3. PoolJobs(reservations', p) <= d.max_concurrency
          BY <3>1, <4>1, <5>1, <5>2
        <5> QED BY <5>3
      <4> QED BY <4>2, <4>3, <2>8 DEF CapacityInv, PoolJobsBounded
    <3> QED BY <3>2, <3>3
  <2> QED BY <2>7, <2>8 DEF CapacityInv, PoolWithinCapacity, PoolJobsBounded, SharedPool,
        PoolRows, PoolLoad, PoolJobs, Total, InPool, Units
<1> QED BY <1>1, <1>2

LEMMA CapacityAlways == Spec => []CapacityInv
BY TInvAlways, CapacityInit, CapacityStep, PTL DEF Spec

\* What is reserved of a shared pool stays within what one of its workers was
\* registered with, whichever of them was granted, through restarts of the
\* holders, late heartbeats and new registrations.
THEOREM WithinCapacity == Spec => []PoolWithinCapacity
<1>1. CapacityInv => PoolWithinCapacity
  BY DEF CapacityInv
<1> QED BY <1>1, CapacityAlways, PTL

\* No pool holds more jobs than one of its workers allows.
THEOREM JobsBounded == Spec => []PoolJobsBounded
<1>1. CapacityInv => PoolJobsBounded
  BY DEF CapacityInv
<1> QED BY <1>1, CapacityAlways, PTL

-----------------------------------------------------------------------------
(* Accounts and the local machine                                            *)

\* Registration moves no worker into or out of a settled domain.
LEMMA QuotaKept ==
    ASSUME TInv, [Next]_vars, NEW q, SettledQuota(q), NEW w \in DOMAIN workers
    PROVE  workers'[w].quota = q <=> workers[w].quota = q
<1>1. PICK c \in Configs[w] : workers[w].quota = c.quota
  BY DEF TInv, Registered, SameOffer
<1>2. PICK d \in Configs[w] : workers'[w].quota = d.quota
  BY RegistryStep DEF Registered, SameOffer
<1>3. w \in Worker
  BY DEF TInv, TypeOK
<1> QED BY <1>1, <1>2, <1>3 DEF SettledQuota

LEMMA QuotaType ==
    ASSUME NEW tbl, TableOK(tbl), NEW q
    PROVE  /\ IsFiniteSet({t \in DOMAIN tbl : workers[tbl[t].worker].quota = q})
           /\ QuotaJobs(tbl, q) \in Nat
<1>1. IsFiniteSet(DOMAIN tbl)
  BY PoolFinite
<1>2. IsFiniteSet({t \in DOMAIN tbl : workers[tbl[t].worker].quota = q})
  BY <1>1, FS_Subset
<1> QED BY <1>2, FS_CardinalityType DEF QuotaJobs

\* A grant adds one job to the account of its worker, and to no other.
LEMMA GrantQuota ==
    ASSUME TypeOK, NEW w \in DOMAIN workers, NEW t \in Task, NEW spec \in SpecsOf[t],
           NEW tbl, tbl = Put(Swept, t, NewRow(w, spec)), t \notin DOMAIN Swept, NEW q
    PROVE  /\ q # workers[w].quota => QuotaJobs(tbl, q) = QuotaJobs(Swept, q)
           /\ QuotaJobs(tbl, q) <= QuotaJobs(Swept, q) + 1
<1>1. /\ TableOK(tbl)
      /\ DOMAIN tbl = DOMAIN Swept \cup {t}
      /\ tbl[t].worker = w
      /\ \A u \in DOMAIN Swept \ {t} : tbl[u] = Swept[u]
  BY RowsAfterGrant
<1> DEFINE old == {u \in DOMAIN Swept : workers[Swept[u].worker].quota = q}
           new == {u \in DOMAIN tbl : workers[tbl[u].worker].quota = q}
<1>2. new = IF workers[w].quota = q THEN old \cup {t} ELSE old
  BY <1>1
<1>3. TableOK(Swept)
  BY TypeGivesTable, SweptShrunk
<1>4. IsFiniteSet(old) /\ Cardinality(old) \in Nat
  BY <1>3, QuotaType DEF QuotaJobs
<1>5. QuotaJobs(tbl, q) = Cardinality(new) /\ QuotaJobs(Swept, q) = Cardinality(old)
  BY DEF QuotaJobs
<1> HIDE DEF old, new
<1>6. Cardinality(old \cup {t}) <= Cardinality(old) + 1
  <2>1. Cardinality(old \cup {t})
          = IF t \in old THEN Cardinality(old) ELSE Cardinality(old) + 1
    BY <1>4, FS_AddElement
  <2> QED BY <2>1, <1>4
<1> QED BY <1>2, <1>4, <1>5, <1>6

LEMMA QuotaStep == TInv /\ QuotaBounded /\ [Next]_vars => QuotaBounded'
<1> SUFFICES ASSUME TInv, QuotaBounded, [Next]_vars, NEW q \in Quota, SettledQuota(q)
             PROVE  \/ QuotaJobs(reservations, q)' = 0
                    \/ \E c \in QuotaRows(q) : QuotaJobs(reservations, q)' <= c.max_concurrency
  BY DEF QuotaBounded, SettledQuota, QuotaRows
<1>0. /\ TableOK(reservations) /\ TableOK(reservations')
      /\ \A t \in DOMAIN reservations' : reservations'[t].worker \in DOMAIN workers
  BY TypeGivesTable, TableStep DEF TInv
<1>1. QuotaJobs(reservations, q)' = QuotaJobs(reservations', q)
  <2>1. \A t \in DOMAIN reservations' :
           workers'[reservations'[t].worker].quota = q
              <=> workers[reservations'[t].worker].quota = q
    BY <1>0, QuotaKept
  <2> QED BY <2>1 DEF QuotaJobs
<1>2. QuotaJobs(reservations', q) \in Nat /\ QuotaJobs(reservations, q) \in Nat
  BY <1>0, QuotaType
<1>3. CASE QuotaJobs(reservations', q) <= QuotaJobs(reservations, q)
  <2>1. CASE QuotaJobs(reservations, q) = 0
    BY <1>1, <1>2, <1>3, <2>1
  <2>2. CASE \E c \in QuotaRows(q) : QuotaJobs(reservations, q) <= c.max_concurrency
    <3>1. PICK c \in QuotaRows(q) : QuotaJobs(reservations, q) <= c.max_concurrency
      BY <2>2
    <3>2. c.max_concurrency \in Nat
      <4>1. c \in WorkerRow
        BY MaintainerAssumption DEF QuotaRows
      <4> QED BY <4>1 DEF WorkerRow
    <3>3. QuotaJobs(reservations', q) <= c.max_concurrency
      BY <1>2, <1>3, <3>1, <3>2
    <3> QED BY <1>1, <3>3
  <2> QED BY <2>1, <2>2 DEF QuotaBounded
<1>4. CASE ~\E t \in Task : \E spec \in SpecsOf[t] : Grant(t, spec)
  <2>1. Shrunk(reservations')
    BY <1>4, OtherStepsShrink DEF TInv
  <2> QED BY <1>0, <1>3, <2>1, ShrunkLoads
<1>5. ASSUME NEW t \in Task, NEW spec \in SpecsOf[t], Grant(t, spec)
      PROVE  \/ QuotaJobs(reservations', q) <= QuotaJobs(reservations, q)
             \/ \E c \in QuotaRows(q) : QuotaJobs(reservations', q) <= c.max_concurrency
  <2>1. PICK w \in DOMAIN workers :
           /\ HasSlot(Swept, w) /\ HasCapacity(Swept, spec, w)
           /\ t \notin DOMAIN Swept
           /\ reservations' = Put(Swept, t, NewRow(w, spec))
    BY <1>5, GrantedRow
  <2>2. TableOK(Swept) /\ Shrunk(Swept)
    BY <1>0, SweptShrunk
  <2>3. QuotaJobs(Swept, q) <= QuotaJobs(reservations, q) /\ QuotaJobs(Swept, q) \in Nat
    BY <1>0, <2>2, ShrunkLoads, QuotaType
  <2>4. /\ q # workers[w].quota => QuotaJobs(reservations', q) = QuotaJobs(Swept, q)
        /\ QuotaJobs(reservations', q) <= QuotaJobs(Swept, q) + 1
    BY <2>1, GrantQuota DEF TInv
  <2>5. CASE q # workers[w].quota
    BY <2>3, <2>4, <2>5
  <2>6. CASE q = workers[w].quota
    <3>1. spec \in Placement
      BY MaintainerAssumption
    <3>2. PICK c \in PoolRows(workers[w].pool) :
             /\ c.quota = q
             /\ c.max_concurrency \in Nat
             /\ QuotaJobs(Swept, q) + 1 <= c.max_concurrency
      BY <2>1, <2>6, <3>1, GrantWithin
    <3>3. c \in QuotaRows(q)
      BY <3>2 DEF PoolRows, QuotaRows
    <3>4. QuotaJobs(reservations', q) <= c.max_concurrency
      BY <1>2, <2>3, <2>4, <3>2
    <3> QED BY <3>3, <3>4
  <2> QED BY <2>5, <2>6
<1> QED BY <1>1, <1>3, <1>4, <1>5

\* The jobs of one account, over all its workers and pools, never exceed what
\* one of the workers allows, as long as registration moves no worker between
\* accounts.
THEOREM QuotaWithin == Spec => []QuotaBounded
<1>1. Init => QuotaBounded
  <2> SUFFICES ASSUME Init, NEW q PROVE QuotaJobs(reservations, q) = 0
    BY DEF QuotaBounded
  <2>1. {t \in DOMAIN reservations : workers[reservations[t].worker].quota = q} = {}
    BY DEF Init
  <2> QED BY <2>1, FS_EmptySet DEF QuotaJobs
<1> QED BY <1>1, QuotaStep, TInvAlways, PTL DEF Spec

\* A grant on a shared local machine leaves routed jobs and local commands
\* together within its memory and processors.
LEMMA HeadroomStep ==
    ASSUME TInv, [Next]_vars,
           NEW t \in DOMAIN reservations' \ DOMAIN reservations,
           workers[reservations'[t].worker].local, workers[reservations'[t].worker].shared,
           NEW r \in {"ram", "cpu"}, workers[reservations'[t].worker].cap[r] # NoLimit
    PROVE  PoolLoad(reservations', workers[reservations'[t].worker].pool, r) + DirectLoad(r)
              <= workers[reservations'[t].worker].cap[r]
<1>0. TableOK(reservations) /\ TableOK(reservations') /\ r \in Resource
  BY TypeGivesTable, TableStep DEF TInv, Resource
<1>a. PICK u \in Task : \E spec \in SpecsOf[u] : Grant(u, spec)
  BY OtherStepsShrink DEF TInv, Shrunk
<1>1. PICK spec \in SpecsOf[u] : Grant(u, spec)
  BY <1>a
<1>2. PICK w \in DOMAIN workers :
         /\ HasCapacity(Swept, spec, w)
         /\ u \notin DOMAIN Swept
         /\ reservations' = Put(Swept, u, NewRow(w, spec))
  BY <1>1, GrantedRow
<1>3. /\ DOMAIN reservations' = DOMAIN Swept \cup {u}
      /\ reservations'[u].worker = w
  BY <1>2, RowsAfterGrant DEF TInv
<1>4. TableOK(Swept) /\ DOMAIN Swept \subseteq DOMAIN reservations
  BY <1>0, SweptShrunk DEF Shrunk
<1>5. reservations'[t].worker = w
  BY <1>3, <1>4
<1>6. PoolLoad(reservations', workers[w].pool, r)
         <= PoolLoad(Swept, workers[w].pool, r) + spec.need[r]
  BY <1>0, <1>2, GrantLoads DEF TInv
<1>7. PoolLoad(Swept, workers[w].pool, r) + DirectLoad(r) + spec.need[r] <= workers[w].cap[r]
  <2>1. Usage(Swept, w, r) + spec.need[r] <= workers[w].cap[r]
    BY <1>0, <1>2, <1>5 DEF HasCapacity, Accounted
  <2> QED BY <2>1, <1>5 DEF Usage
<1>8. /\ PoolLoad(Swept, workers[w].pool, r) \in Nat
      /\ PoolLoad(reservations', workers[w].pool, r) \in Nat
  BY <1>0, <1>4, LoadType
<1>9. DirectLoad(r) \in Nat
  BY <1>0, DirectType DEF TInv, TypeOK
<1>10. spec.need[r] \in Nat /\ workers[w].cap[r] \in Nat
  <2>1. spec \in Placement /\ workers[w] \in WorkerRow
    BY MaintainerAssumption DEF TInv, TypeOK
  <2> QED BY <2>1, <1>0, <1>5 DEF Placement, WorkerRow
<1>11. PoolLoad(reservations', workers[w].pool, r) + DirectLoad(r) <= workers[w].cap[r]
  BY <1>6, <1>7, <1>8, <1>9, <1>10
<1> QED BY <1>5, <1>11

\* What the coordinator has promised to local commands is never promised a
\* second time to a routed job.
THEOREM HeadroomOnce == Spec => LocalHeadroomSpentOnce
<1>1. TInv /\ [Next]_vars =>
        [\A t \in DOMAIN reservations' \ DOMAIN reservations :
            LET w == reservations'[t].worker
            IN  workers[w].local /\ workers[w].shared =>
                  \A r \in {"ram", "cpu"} : workers[w].cap[r] # NoLimit =>
                      PoolLoad(reservations', workers[w].pool, r) + DirectLoad(r)
                          <= workers[w].cap[r]]_vars
  BY HeadroomStep
<1> QED BY <1>1, TInvAlways, PTL DEF Spec, LocalHeadroomSpentOnce
=================================================================================
