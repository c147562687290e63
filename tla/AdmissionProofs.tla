--------------------------- MODULE AdmissionProofs ---------------------------
(* Theorems about Admission, for any uses, agents, commands and slots.        *)
EXTENDS Admission, TLAPS, FiniteSetTheorems

-----------------------------------------------------------------------------
(* What the operators on the tables return                                    *)

\* The types of the two tables.
TablesOK(r, q) ==
    /\ DOMAIN r \subseteq Use
    /\ \A k \in DOMAIN r : r[k] \in Reservation
    /\ DOMAIN q \subseteq Use
    /\ \A k \in DOMAIN q : q[k] \in Place

\* Deletion keeps the type of the queue.
LEMMA WithoutType ==
    ASSUME NEW q, NEW gone, DOMAIN q \subseteq Use,
           \A k \in DOMAIN q : q[k] \in Place
    PROVE  /\ DOMAIN Without(q, gone) = DOMAIN q \ gone
           /\ \A k \in DOMAIN Without(q, gone) : Without(q, gone)[k] \in Place
BY DEF Without, Place

\* So does the upsert, for a request of the instance.
LEMMA EnqueuedType ==
    ASSUME NEW q, NEW u \in Use, DOMAIN q \subseteq Use,
           \A k \in DOMAIN q : q[k] \in Place
    PROVE  /\ DOMAIN Enqueued(q, u) = DOMAIN q \cup {u}
           /\ \A k \in DOMAIN Enqueued(q, u) : Enqueued(q, u)[k] \in Place
<1>1. CASE u \in DOMAIN q
  BY <1>1 DEF Enqueued, Place
<1>2. CASE u \notin DOMAIN q
  BY <1>2 DEF Enqueued, Place, Insert
<1> QED BY <1>1, <1>2

\* The sweep only deletes.
LEMMA SweepType ==
    ASSUME TablesOK(reservations, queue)
    PROVE  /\ TablesOK(Kept, KeptQueue)
           /\ DOMAIN Kept = {k \in DOMAIN reservations :
                                Live(k) /\ ~reservations[k].expired}
           /\ \A k \in DOMAIN Kept : Kept[k] = reservations[k]
           /\ DOMAIN KeptQueue \subseteq DOMAIN queue
<1>1. /\ DOMAIN Kept = {k \in DOMAIN reservations :
                            Live(k) /\ ~reservations[k].expired}
      /\ \A k \in DOMAIN Kept : Kept[k] = reservations[k]
  BY DEF Kept, Restrict
<1> DEFINE gone == {k \in DOMAIN queue : ~Live(k) \/ queue[k].idle}
<1>2. /\ DOMAIN KeptQueue = DOMAIN queue \ gone
      /\ \A k \in DOMAIN KeptQueue : KeptQueue[k] \in Place
  BY WithoutType DEF TablesOK, KeptQueue
<1> QED BY <1>1, <1>2 DEF TablesOK

-----------------------------------------------------------------------------
(* Type correctness                                                           *)

\* What a step on the tables has to keep.
RowsOK ==
    /\ TablesOK(reservations, queue)
    /\ DOMAIN reservations \cap DOMAIN queue = {}
    /\ grants \in 0..MaxGrants
    /\ excused \subseteq Use

LEMMA TypeOfRows == TypeOK => RowsOK
BY DEF TypeOK, RowsOK, TablesOK

\* The three ways in which admit allows a request keep the types.
LEMMA AllowType ==
    ASSUME TypeOK, NEW u \in Use, NEW k \in Use, Allow(u, k)
    PROVE  RowsOK' /\ k \in DOMAIN reservations'
<1> USE AdmissionAssumption
<1>1. /\ TablesOK(Kept, KeptQueue)
      /\ DOMAIN Kept \cap DOMAIN KeptQueue = {}
      /\ grants \in 0..MaxGrants /\ excused \subseteq Use
  BY SweepType, TypeOfRows DEF RowsOK
<1>2. CASE Renew(u, k)
  <2>1. TablesOK(reservations', queue')
    BY <1>1, <1>2 DEF Renew, TablesOK, Reservation
  <2> QED BY <1>1, <1>2, <2>1 DEF Renew, RowsOK, TablesOK
<1>3. CASE TakeOver(u, k)
  <2>1. k \in DOMAIN Kept
    BY <1>3 DEF TakeOver, HandOff, Freed
  <2>2. TablesOK(reservations', queue')
    BY <1>1, <1>3, <2>1 DEF TakeOver, TablesOK, Reservation
  <2> QED BY <1>1, <1>3, <2>1, <2>2 DEF TakeOver, RowsOK, TablesOK
<1>4. CASE Grant(u, k)
  <2> DEFINE row == [id |-> grants + 1, use |-> u, expired |-> FALSE,
                     exempt |-> OwnerOf[u] \in exempt]
  <2>1. /\ k = u /\ grants < MaxGrants /\ grants' = grants + 1
        /\ reservations' = Insert(Kept, u, row)
        /\ queue' = Without(KeptQueue, {u})
        /\ excused' \subseteq excused \cup {u}
    BY <1>4 DEF Grant, Leaving
  <2>2. row \in Reservation
    BY <1>1, <2>1 DEF Reservation
  <2>3. /\ DOMAIN reservations' = DOMAIN Kept \cup {u}
        /\ \A j \in DOMAIN reservations' : reservations'[j] \in Reservation
    <3> HIDE DEF row
    <3> QED BY <1>1, <2>1, <2>2 DEF Insert, TablesOK
  <2>4. /\ DOMAIN queue' = DOMAIN KeptQueue \ {u}
        /\ \A j \in DOMAIN queue' : queue'[j] \in Place
    BY <1>1, <2>1, WithoutType DEF TablesOK
  <2>5. TablesOK(reservations', queue')
    BY <1>1, <2>3, <2>4 DEF TablesOK
  <2>6. /\ DOMAIN reservations' \cap DOMAIN queue' = {}
        /\ grants' \in 0..MaxGrants /\ excused' \subseteq Use
        /\ k \in DOMAIN reservations'
    <3> HIDE DEF row
    <3> QED BY <1>1, <2>1, <2>3, <2>4
  <2> QED
    BY <2>5, <2>6 DEF RowsOK
<1> QED BY <1>2, <1>3, <1>4 DEF Allow

\* So does a refusal.
LEMMA RefuseType ==
    ASSUME TypeOK, NEW u \in Use, Refuse(u)
    PROVE  RowsOK'
<1>1. /\ TablesOK(Kept, KeptQueue)
      /\ DOMAIN Kept \cap DOMAIN KeptQueue = {}
      /\ grants \in 0..MaxGrants /\ excused \subseteq Use
  BY SweepType, TypeOfRows DEF RowsOK
<1>2. /\ DOMAIN Enqueued(KeptQueue, u) = DOMAIN KeptQueue \cup {u}
      /\ \A j \in DOMAIN Enqueued(KeptQueue, u) : Enqueued(KeptQueue, u)[j] \in Place
  BY <1>1, EnqueuedType DEF TablesOK
<1> QED BY <1>1, <1>2 DEF Refuse, RowsOK, TablesOK

\* And the sweep by itself, and every deletion.
LEMMA DeletionType ==
    ASSUME TypeOK, UNCHANGED <<grants, excused>>,
           \/ /\ reservations' = Kept /\ queue' = KeptQueue
           \/ /\ UNCHANGED reservations
              /\ \E k : CancelQueued(k)
    PROVE  RowsOK'
<1>1. RowsOK
  BY TypeOfRows
<1>2. CASE reservations' = Kept /\ queue' = KeptQueue
  BY <1>1, <1>2, SweepType DEF RowsOK
<1>3. CASE UNCHANGED reservations /\ \E k : CancelQueued(k)
  <2> PICK k : queue' = Without(queue, {k})
    BY <1>3 DEF CancelQueued
  <2> QED BY <1>1, <1>3, WithoutType DEF RowsOK, TablesOK
<1> QED BY <1>2, <1>3

\* The rest of the type invariant.
ProcessesOK ==
    /\ call \in [Use -> Stage]
    /\ waiter \in [Waiter -> [pc : WaiterAt, key : Use \cup {NoUse}, id : 0..MaxGrants]]
    /\ \A w \in Waiter : waiter[w].key = NoUse <=> waiter[w].pc \in {"off", "killed"}
    /\ dead \subseteq Owner /\ exempt \subseteq Owner

LEMMA TypeParts == TypeOK <=> RowsOK /\ ProcessesOK
BY DEF TypeOK, RowsOK, TablesOK, ProcessesOK

\* A waiter that is at work has the key of a request.
LEMMA WaiterKey ==
    ASSUME TypeOK, NEW w \in Waiter, waiter[w].pc \in {"try", "admit", "reset"}
    PROVE  waiter[w].key \in Use
BY DEF TypeOK

LEMMA InitType == Init => TypeOK
BY AdmissionAssumption DEF Init, TypeOK, Stage, WaiterAt, Off

LEMMA NextType == TypeOK /\ [Next]_vars => TypeOK'
<1> SUFFICES ASSUME TypeOK, [Next]_vars PROVE TypeOK'
  OBVIOUS
<1> USE AdmissionAssumption
<1>p. RowsOK /\ ProcessesOK
  BY TypeParts
<1>s. SUFFICES RowsOK' /\ ProcessesOK'
  BY TypeParts DEF TypeOK, RowsOK, TablesOK, ProcessesOK
<1>1. ASSUME NEW u \in Use, Gate(u) PROVE RowsOK' /\ ProcessesOK'
  <2>1. RowsOK'
    BY <1>1, AllowType, RefuseType DEF Gate
  <2>2. ProcessesOK'
    BY <1>1, <1>p DEF Gate, ProcessesOK, Stage
  <2> QED BY <2>1, <2>2
<1>2. ASSUME NEW u \in Use, CommandEnds(u) PROVE RowsOK' /\ ProcessesOK'
  BY <1>2, <1>p DEF CommandEnds, ProcessesOK, RowsOK, TablesOK, Stage
<1>3. ASSUME NEW u \in Use, Release(u) PROVE RowsOK' /\ ProcessesOK'
  <2>1. ProcessesOK'
    BY <1>3, <1>p DEF Release, ProcessesOK, Stage
  <2>2. RowsOK'
    BY <1>3, <1>p DEF Release, RowsOK, TablesOK, Restrict
  <2> QED BY <2>1, <2>2
<1>4. ASSUME NEW u \in Use, StopCancels(u) PROVE RowsOK' /\ ProcessesOK'
  <2>1. RowsOK'
    BY <1>4, DeletionType DEF StopCancels
  <2> QED BY <1>4, <1>p, <2>1 DEF StopCancels, ProcessesOK
<1>5. ASSUME NEW u \in Use, WrapperPolls(u) PROVE RowsOK' /\ ProcessesOK'
  <2>1. RowsOK'
    BY <1>5, RefuseType DEF WrapperPolls
  <2> QED BY <1>5, <1>p, <2>1 DEF WrapperPolls, ProcessesOK, Stage
<1>6. ASSUME NEW u \in Use, WrapperRuns(u) PROVE RowsOK' /\ ProcessesOK'
  <2>1. RowsOK'
    BY <1>6, AllowType DEF WrapperRuns
  <2> QED BY <1>6, <1>p, <2>1 DEF WrapperRuns, ProcessesOK, Stage
<1>7. ASSUME NEW u \in Use, WrapperGivesUp(u) PROVE RowsOK' /\ ProcessesOK'
  <2>1. RowsOK'
    BY <1>7, DeletionType DEF WrapperGivesUp
  <2> QED BY <1>7, <1>p, <2>1 DEF WrapperGivesUp, ProcessesOK, Stage
<1>8. ASSUME NEW k \in Use, Expire(k) PROVE RowsOK' /\ ProcessesOK'
  <2>1. ProcessesOK'
    BY <1>8, <1>p DEF Expire, ProcessesOK
  <2>2. RowsOK'
    BY <1>8, <1>p DEF Expire, HasRow, RowsOK, TablesOK, Reservation
  <2> QED BY <2>1, <2>2
<1>9. ASSUME NEW k \in Use, GoIdle(k) PROVE RowsOK' /\ ProcessesOK'
  <2>1. ProcessesOK'
    BY <1>9, <1>p DEF GoIdle, ProcessesOK
  <2>2. RowsOK'
    BY <1>9, <1>p DEF GoIdle, HasPlace, RowsOK, TablesOK, Place
  <2> QED BY <2>1, <2>2
<1>10. ASSUME NEW u \in Use, Abandon(u) PROVE RowsOK' /\ ProcessesOK'
  BY <1>10, <1>p DEF Abandon, ProcessesOK, RowsOK, TablesOK, Stage
<1>11. ASSUME NEW w \in Waiter, NEW k \in Use, WaiterStarts(w, k)
       PROVE  RowsOK' /\ ProcessesOK'
  <2>1. RowsOK'
    BY <1>11, <1>p DEF WaiterStarts, RowsOK, TablesOK
  <2>2. ProcessesOK'
    BY <1>11, <1>p DEF WaiterStarts, ProcessesOK, WaiterAt
  <2> QED BY <2>1, <2>2
<1>12. ASSUME NEW w \in Waiter, WaiterReads(w) PROVE RowsOK' /\ ProcessesOK'
  <2>1. RowsOK'
    BY <1>12, <1>p DEF WaiterReads, RowsOK, TablesOK
  <2>2. ProcessesOK'
    BY <1>12, <1>p
    DEF WaiterReads, WaiterGoes, WaiterEnds, Off, ProcessesOK, WaiterAt
  <2> QED BY <2>1, <2>2
<1>13. ASSUME NEW w \in Waiter, WaiterRefused(w) PROVE RowsOK' /\ ProcessesOK'
  <2>1. RowsOK'
    BY <1>13, RefuseType, WaiterKey DEF WaiterRefused
  <2>2. ProcessesOK'
    BY <1>13, <1>p DEF WaiterRefused, WaiterGoes, ProcessesOK, WaiterAt
  <2> QED BY <2>1, <2>2
<1>14. ASSUME NEW w \in Waiter, WaiterAllowed(w) PROVE RowsOK' /\ ProcessesOK'
  <2>1. PICK k \in Use :
          /\ Allow(waiter[w].key, k)
          /\ waiter' = [waiter EXCEPT ![w] =
                [pc |-> "reset", key |-> k, id |-> reservations'[k].id]]
    BY <1>14 DEF WaiterAllowed
  <2>2. RowsOK' /\ k \in DOMAIN reservations'
    BY <1>14, <2>1, AllowType, WaiterKey DEF WaiterAllowed
  <2>3. reservations'[k].id \in 0..MaxGrants
    BY <2>2 DEF RowsOK, TablesOK, Reservation
  <2>4. ProcessesOK'
    <3>1. UNCHANGED <<call, dead, exempt>>
      BY <1>14 DEF WaiterAllowed
    <3> QED BY <1>p, <2>1, <2>3, <3>1 DEF ProcessesOK, WaiterAt
  <2> QED BY <2>2, <2>4
<1>15. ASSUME NEW w \in Waiter, WaiterResets(w) PROVE RowsOK' /\ ProcessesOK'
  <2>1. RowsOK'
    BY <1>15, <1>p DEF WaiterResets, HasRow, RowsOK, TablesOK, Reservation
  <2>2. ProcessesOK'
    BY <1>15, <1>p DEF WaiterResets, WaiterEnds, Off, ProcessesOK, WaiterAt
  <2> QED BY <2>1, <2>2
<1>16. ASSUME NEW w \in Waiter, WaiterGivesUp(w) PROVE RowsOK' /\ ProcessesOK'
  <2>1. RowsOK'
    BY <1>16, DeletionType DEF WaiterGivesUp
  <2>2. ProcessesOK'
    BY <1>16, <1>p DEF WaiterGivesUp, WaiterEnds, Off, ProcessesOK, WaiterAt
  <2> QED BY <2>1, <2>2
<1>17. ASSUME NEW w \in Waiter, WaiterKilled(w) PROVE RowsOK' /\ ProcessesOK'
  <2>1. RowsOK'
    BY <1>17, <1>p DEF WaiterKilled, RowsOK, TablesOK
  <2>2. ProcessesOK'
    BY <1>17, <1>p DEF WaiterKilled, Off, ProcessesOK, WaiterAt
  <2> QED BY <2>1, <2>2
<1>18. CASE Cleanup
  <2>1. RowsOK'
    BY <1>18, DeletionType DEF Cleanup
  <2> QED BY <1>18, <1>p, <2>1 DEF Cleanup, ProcessesOK
<1>19. ASSUME NEW o \in Owner, Die(o) PROVE RowsOK' /\ ProcessesOK'
  <2>1. RowsOK'
    BY <1>19, <1>p DEF Die, RowsOK, TablesOK
  <2>2. ProcessesOK'
    BY <1>19, <1>p DEF Die, Off, ProcessesOK, Stage, WaiterAt
  <2> QED BY <2>1, <2>2
<1>20. ASSUME NEW o \in Owner, Exempt(o) PROVE RowsOK' /\ ProcessesOK'
  BY <1>20, <1>p DEF Exempt, ProcessesOK, RowsOK, TablesOK
<1>21. CASE UNCHANGED vars
  BY <1>21, <1>p DEF vars, ProcessesOK, RowsOK, TablesOK
<1> QED
  BY <1>1, <1>2, <1>3, <1>4, <1>5, <1>6, <1>7, <1>8, <1>9, <1>10, <1>11, <1>12,
     <1>13, <1>14, <1>15, <1>16, <1>17, <1>18, <1>19, <1>20, <1>21
  DEF Next, WaiterSteps

\* Rows, processes and counters always have the values of the code, and no
\* request is queued and reserved at once.
THEOREM AdmissionTypeCorrect == Spec => []TypeOK
BY InitType, NextType, PTL DEF Spec

-----------------------------------------------------------------------------
(* I/O slots                                                                  *)

\* The reservations that SlotBound counts.
Counted == {k \in HeavyKeys(reservations) : ~reservations[k].exempt}

\* A step that adds none of them keeps the bound.
LEMMA NoMoreCounted ==
    ASSUME TypeOK, SlotBound, Counted' \subseteq Counted
    PROVE  SlotBound'
<1>1. Counted \subseteq Use
  BY DEF Counted, HeavyKeys, TypeOK
<1>2. IsFiniteSet(Counted)
  BY <1>1, FiniteAssumption, FS_Subset
<1>3. Cardinality(Counted') <= Cardinality(Counted)
  BY <1>2, FS_Subset
<1>4. Cardinality(Counted) \in Nat /\ Cardinality(Counted') \in Nat
  BY <1>2, FS_Subset, FS_CardinalityType
<1> QED BY <1>3, <1>4, AdmissionAssumption DEF SlotBound, Counted

\* Neither does admit: what it grants was counted against what the sweep left.
LEMMA AllowSlots ==
    ASSUME TypeOK, SlotBound, NEW u \in Use, NEW k \in Use, Allow(u, k)
    PROVE  SlotBound'
<1> USE AdmissionAssumption
<1>1. /\ DOMAIN Kept \subseteq DOMAIN reservations
      /\ \A j \in DOMAIN Kept : Kept[j] = reservations[j]
      /\ DOMAIN reservations \subseteq Use
  BY SweepType, TypeOfRows DEF RowsOK, TablesOK
<1>2. CASE Renew(u, k)
  BY <1>1, <1>2, NoMoreCounted DEF Renew, Counted, HeavyKeys
<1>3. CASE TakeOver(u, k)
  BY <1>1, <1>3, NoMoreCounted DEF TakeOver, Counted, HeavyKeys
<1>4. CASE Grant(u, k)
  <2> DEFINE row == [id |-> grants + 1, use |-> u, expired |-> FALSE,
                     exempt |-> OwnerOf[u] \in exempt]
  <2>1. /\ reservations' = Insert(Kept, u, row)
        /\ u \notin DOMAIN Kept
        /\ \/ OwnerOf[u] \in exempt
           \/ Cardinality(HeavyKeys(Kept)) + Io(u) <= Slots
    BY <1>4 DEF Grant
  <2>2. /\ DOMAIN reservations' = DOMAIN Kept \cup {u}
        /\ reservations'[u].exempt = (OwnerOf[u] \in exempt)
        /\ \A j \in DOMAIN Kept : reservations'[j] = reservations[j]
    BY <1>1, <2>1 DEF Insert
  <2>3. CASE OwnerOf[u] \in exempt \/ CommandOf[u] \notin Heavy
    <3>1. Counted' \subseteq Counted
      BY <1>1, <2>2, <2>3 DEF Counted, HeavyKeys
    <3> QED BY <3>1, NoMoreCounted
  <2>4. CASE OwnerOf[u] \notin exempt /\ CommandOf[u] \in Heavy
    <3>1. Counted' \subseteq HeavyKeys(Kept) \cup {u}
      BY <2>2 DEF Counted, HeavyKeys
    <3>2. IsFiniteSet(HeavyKeys(Kept))
      BY <1>1, FiniteAssumption, FS_Subset DEF HeavyKeys
    <3>3. Cardinality(HeavyKeys(Kept)) + 1 <= Slots
      BY <2>1, <2>4 DEF Io
    <3>4. /\ IsFiniteSet(HeavyKeys(Kept) \cup {u})
          /\ Cardinality(HeavyKeys(Kept) \cup {u}) <= Cardinality(HeavyKeys(Kept)) + 1
          /\ Cardinality(HeavyKeys(Kept)) \in Nat
          /\ Cardinality(HeavyKeys(Kept) \cup {u}) \in Nat
      <4>1. Cardinality(HeavyKeys(Kept)) \in Nat
        BY <3>2, FS_CardinalityType
      <4>2. u \notin HeavyKeys(Kept)
        BY <2>1 DEF HeavyKeys
      <4>3. /\ IsFiniteSet(HeavyKeys(Kept) \cup {u})
            /\ Cardinality(HeavyKeys(Kept) \cup {u}) = Cardinality(HeavyKeys(Kept)) + 1
        BY <3>2, <4>2, FS_AddElement
      <4> QED BY <4>1, <4>3
    <3>5. /\ Cardinality(Counted') <= Cardinality(HeavyKeys(Kept) \cup {u})
          /\ Cardinality(Counted') \in Nat
      BY <3>1, <3>4, FS_Subset, FS_CardinalityType
    <3> QED BY <3>3, <3>4, <3>5 DEF SlotBound, Counted
  <2> QED BY <2>3, <2>4
<1> QED BY <1>2, <1>3, <1>4 DEF Allow

\* Steps that leave or delete reservations, or change other columns of them.
LEMMA OtherSlots ==
    ASSUME TypeOK, SlotBound,
           DOMAIN reservations' \subseteq DOMAIN reservations,
           \A k \in DOMAIN reservations' :
               reservations'[k].exempt = reservations[k].exempt
    PROVE  SlotBound'
BY NoMoreCounted DEF Counted, HeavyKeys

LEMMA SweepSlots ==
    ASSUME TypeOK, SlotBound, reservations' = Kept
    PROVE  SlotBound'
BY SweepType, TypeOfRows, OtherSlots DEF RowsOK

LEMMA SameSlots ==
    ASSUME SlotBound, UNCHANGED reservations
    PROVE  SlotBound'
BY DEF SlotBound, HeavyKeys

LEMMA NextSlots == TypeOK /\ SlotBound /\ [Next]_vars => SlotBound'
<1> SUFFICES ASSUME TypeOK, SlotBound, [Next]_vars PROVE SlotBound'
  OBVIOUS
<1>1. ASSUME NEW u \in Use, Gate(u) \/ WrapperRuns(u) \/ WrapperPolls(u)
      PROVE  SlotBound'
  BY <1>1, AllowSlots, SweepSlots DEF Gate, WrapperRuns, WrapperPolls, Refuse
<1>2. ASSUME NEW w \in Waiter, WaiterAllowed(w) \/ WaiterRefused(w)
      PROVE  SlotBound'
  BY <1>2, AllowSlots, SweepSlots, WaiterKey
  DEF WaiterAllowed, WaiterRefused, Refuse
<1>3. CASE Cleanup
  BY <1>3, SweepSlots DEF Cleanup
<1>4. ASSUME NEW u \in Use, Release(u) PROVE SlotBound'
  BY <1>4, OtherSlots DEF Release, Restrict
<1>5. ASSUME NEW k \in Use, Expire(k) PROVE SlotBound'
  BY <1>5, OtherSlots DEF Expire, HasRow, TypeOK, Reservation
<1>6. ASSUME NEW w \in Waiter, WaiterResets(w) PROVE SlotBound'
  BY <1>6, OtherSlots DEF WaiterResets, HasRow, TypeOK, Reservation
<1>7. CASE UNCHANGED reservations
  BY <1>7, SameSlots
<1>8. \/ UNCHANGED reservations
      \/ \E u \in Use : \/ Gate(u) \/ WrapperRuns(u) \/ WrapperPolls(u)
                        \/ Release(u) \/ Expire(u)
      \/ \E w \in Waiter : WaiterAllowed(w) \/ WaiterRefused(w) \/ WaiterResets(w)
      \/ Cleanup
  BY DEF Next, WaiterSteps, vars, CommandEnds, StopCancels, WrapperGivesUp, GoIdle,
         Abandon, WaiterStarts, WaiterReads, WaiterGivesUp, WaiterKilled, Die, Exempt
<1> QED BY <1>1, <1>2, <1>3, <1>4, <1>5, <1>6, <1>7, <1>8

\* However sweeps, hand-overs, exemptions and lost releases mix, reservations
\* without an exemption never hold more I/O slots than there are.
THEOREM SlotsBounded == Spec => []SlotBound
<1>1. Init => SlotBound
  <2> SUFFICES ASSUME Init PROVE SlotBound
    OBVIOUS
  <2>1. Counted = {}
    BY DEF Init, Counted, HeavyKeys
  <2>2. Cardinality(Counted) = 0
    BY <2>1, FS_EmptySet
  <2> QED BY <2>2, AdmissionAssumption DEF SlotBound, Counted
<1> QED BY <1>1, InitType, NextType, NextSlots, PTL DEF Spec

-----------------------------------------------------------------------------
(* Runs and reservations, when no two processes poll for one request          *)

\* A process that has not been allowed to run has no reservation, neither under
\* its own key nor one it has taken over.
FreshUnreserved ==
    \A u \in Use : call[u] \in {"new", "waiting"} =>
        /\ u \notin DOMAIN reservations
        /\ \A k \in DOMAIN reservations : reservations[k].use # u

\* What the hook has queued is a call it has blocked: it never runs.
QueuedRefused ==
    \A k \in DOMAIN queue \ Wrapped : call[k] \in {"blocked", "over"}

\* A waiter asks for such a call, for which nobody else does, and as long as it
\* asks there is no reservation.
WaitersAsk ==
    \A w \in Waiter : waiter[w].pc \in {"try", "admit"} =>
        LET k == waiter[w].key
        IN  /\ k \notin Wrapped
            /\ call[k] \in {"blocked", "over"}
            /\ k \notin DOMAIN reservations
            /\ \A v \in Waiter \ {w} :
                  waiter[v].pc \in {"try", "admit"} => waiter[v].key # k

\* Between its two transactions a waiter still holds what it was allowed, in the
\* name of a call that does not run, and no other waiter is about to free it.
WaitersHold ==
    \A w \in Waiter : waiter[w].pc = "reset" =>
        /\ waiter[w].id <= grants
        /\ waiter[w].key \in DOMAIN reservations =>
              LET r == reservations[waiter[w].key]
              IN  r.id = waiter[w].id =>
                    r.use \in Use /\ call[r.use] \in {"blocked", "over"}
        /\ \A v \in Waiter \ {w} : waiter[v].pc = "reset" =>
              waiter[v].key # waiter[w].key \/ waiter[v].id # waiter[w].id

\* Reservations are numbered by their creation.
IdsGranted == \A k \in DOMAIN reservations : reservations[k].id <= grants

\* What runs belongs to a live agent.
RunnersLive == \A u \in Use : call[u] = "running" => Live(u)

\* A run on a reservation that is exempt or has expired is excused.
RunnersExcused ==
    \A k \in DOMAIN reservations :
        LET r == reservations[k]
        IN  /\ r.expired \/ r.exempt
            /\ r.use \in Use /\ call[r.use] = "running"
            => r.use \in excused


IInv ==
    /\ TypeOK
    /\ FreshUnreserved /\ QueuedRefused
    /\ WaitersAsk /\ WaitersHold
    /\ IdsGranted /\ RunnersLive /\ RunnersExcused /\ RunsReserved

\* A request without a reservation that is allowed: it gets a new one, or one
\* that names nobody; the sweep aside, the others stay.
LEMMA AllowRows ==
    ASSUME TypeOK, IdsGranted, NEW u \in Use, NEW k \in Use, Allow(u, k),
           u \notin DOMAIN reservations
    PROVE  /\ \A j \in DOMAIN reservations' \ {k} :
                 /\ j \in DOMAIN reservations
                 /\ reservations'[j] = reservations[j]
                 /\ ~reservations[j].expired
           /\ \A j \in DOMAIN reservations :
                 Live(j) /\ ~reservations[j].expired => j \in DOMAIN reservations'
           /\ k \in DOMAIN reservations'
           /\ reservations'[k].use = u /\ ~reservations'[k].expired
           /\ OwnerOf[k] = OwnerOf[u] /\ CommandOf[k] = CommandOf[u]
           /\ reservations'[k].exempt => u \in excused'
           /\ \/ /\ k \in DOMAIN reservations /\ reservations[k].use = NoUse
                 /\ reservations'[k].id = reservations[k].id
                 /\ grants' = grants
              \/ /\ k = u
                 /\ reservations'[k].id = grants + 1 /\ grants' = grants + 1
           /\ excused \subseteq excused' /\ excused' \subseteq excused \cup {u}
           /\ DOMAIN queue' \subseteq DOMAIN queue
<1>1. /\ TablesOK(Kept, KeptQueue)
      /\ DOMAIN Kept = {j \in DOMAIN reservations : Live(j) /\ ~reservations[j].expired}
      /\ \A j \in DOMAIN Kept : Kept[j] = reservations[j]
      /\ DOMAIN KeptQueue \subseteq DOMAIN queue
  BY SweepType, TypeOfRows DEF RowsOK
<1>2. ~Renew(u, k)
  BY <1>1 DEF Renew
<1>3. CASE TakeOver(u, k)
  <2>1. /\ k \in DOMAIN Kept /\ Kept[k].use = NoUse
        /\ OwnerOf[k] = OwnerOf[u] /\ CommandOf[k] = CommandOf[u]
    BY <1>3 DEF TakeOver, HandOff, Freed
  <2>2. Kept[k] \in Reservation
    BY <1>1, <2>1 DEF TablesOK
  <2>3. /\ DOMAIN reservations' = DOMAIN Kept
        /\ \A j \in DOMAIN Kept \ {k} : reservations'[j] = Kept[j]
        /\ reservations'[k] = [Kept[k] EXCEPT !.use = u]
    BY <1>3, <2>1 DEF TakeOver
  <2>4. /\ reservations'[k].use = u
        /\ reservations'[k].id = Kept[k].id
        /\ reservations'[k].expired = Kept[k].expired
        /\ reservations'[k].exempt = Kept[k].exempt
    BY <2>2, <2>3 DEF Reservation
  <2>5. /\ grants' = grants /\ queue' = KeptQueue
        /\ excused' = IF Kept[k].exempt THEN excused \cup {u} ELSE excused
    BY <1>3 DEF TakeOver
  <2> QED BY <1>1, <2>1, <2>3, <2>4, <2>5
<1>4. CASE Grant(u, k)
  <2>1. /\ k = u /\ u \notin DOMAIN Kept
        /\ grants' = grants + 1
        /\ reservations' = Insert(Kept, u,
              [id |-> grants + 1, use |-> u, expired |-> FALSE,
               exempt |-> OwnerOf[u] \in exempt])
        /\ queue' = Without(KeptQueue, {u})
        /\ excused' = IF OwnerOf[u] \in exempt THEN excused \cup {u} ELSE excused
    BY <1>4 DEF Grant, Leaving
  <2>2. /\ DOMAIN reservations' = DOMAIN Kept \cup {u}
        /\ \A j \in DOMAIN Kept : reservations'[j] = Kept[j]
        /\ reservations'[u].use = u /\ reservations'[u].id = grants + 1
        /\ reservations'[u].expired = FALSE
        /\ reservations'[u].exempt = (OwnerOf[u] \in exempt)
    BY <2>1 DEF Insert
  <2>3. DOMAIN queue' \subseteq DOMAIN KeptQueue
    BY <2>1 DEF Without
  <2> QED BY <1>1, <2>1, <2>2, <2>3
<1> QED BY <1>2, <1>3, <1>4 DEF Allow

\* What a transaction that grants nothing leaves.
OnlySwept ==
    /\ \A j \in DOMAIN reservations' :
          j \in DOMAIN reservations /\ reservations'[j] = reservations[j]
    /\ \A j \in DOMAIN reservations :
          Live(j) /\ ~reservations[j].expired => j \in DOMAIN reservations'

LEMMA RefuseRows ==
    ASSUME TypeOK, NEW u \in Use, Refuse(u)
    PROVE  /\ OnlySwept
           /\ DOMAIN queue' \subseteq DOMAIN queue \cup {u}
           /\ UNCHANGED <<grants, excused>>
<1>1. /\ TablesOK(Kept, KeptQueue)
      /\ DOMAIN Kept = {j \in DOMAIN reservations : Live(j) /\ ~reservations[j].expired}
      /\ \A j \in DOMAIN Kept : Kept[j] = reservations[j]
      /\ DOMAIN KeptQueue \subseteq DOMAIN queue
  BY SweepType, TypeOfRows DEF RowsOK
<1>2. DOMAIN Enqueued(KeptQueue, u) = DOMAIN KeptQueue \cup {u}
  BY <1>1, EnqueuedType DEF TablesOK
<1> QED BY <1>1, <1>2 DEF Refuse, OnlySwept

\* A run whose reservation is swept is excused: what is not keeps its row.
LEMMA SweptRuns ==
    ASSUME IInv, OnlySwept, UNCHANGED excused,
           \A u \in Use : call'[u] = "running" => call[u] = "running"
    PROVE  RunsReserved'
<1> SUFFICES ASSUME NEW u \in Use, u \notin excused, call'[u] = "running"
             PROVE  \E k \in DOMAIN reservations' :
                       /\ reservations'[k].use = u
                       /\ OwnerOf[k] = OwnerOf[u] /\ CommandOf[k] = CommandOf[u]
  BY DEF RunsReserved
<1>1. call[u] = "running"
  OBVIOUS
<1>2. PICK k \in DOMAIN reservations :
          /\ reservations[k].use = u
          /\ OwnerOf[k] = OwnerOf[u] /\ CommandOf[k] = CommandOf[u]
  BY <1>1 DEF IInv, RunsReserved
<1>3. Live(k) /\ ~reservations[k].expired
  BY <1>1, <1>2 DEF IInv, RunnersLive, RunnersExcused, Live
<1> QED BY <1>2, <1>3 DEF OnlySwept

\* A hook or a wrapper is allowed and its command starts.
LEMMA RunStarts ==
    ASSUME IInv, TypeOK', NEW u \in Use, NEW k \in Use, Allow(u, k),
           call[u] \in {"new", "waiting"}, Live(u),
           call' = [call EXCEPT ![u] = "running"],
           UNCHANGED <<waiter, dead, exempt>>
    PROVE  IInv'
<1>t. /\ TypeOK /\ IdsGranted /\ u \notin DOMAIN reservations
      /\ call \in [Use -> Stage] /\ grants \in Nat
      /\ u # NoUse
  BY AdmissionAssumption DEF IInv, FreshUnreserved, TypeOK
<1>a. /\ \A j \in DOMAIN reservations' \ {k} :
            /\ j \in DOMAIN reservations
            /\ reservations'[j] = reservations[j]
            /\ ~reservations[j].expired
      /\ \A j \in DOMAIN reservations :
            Live(j) /\ ~reservations[j].expired => j \in DOMAIN reservations'
      /\ k \in DOMAIN reservations'
      /\ reservations'[k].use = u /\ ~reservations'[k].expired
      /\ OwnerOf[k] = OwnerOf[u] /\ CommandOf[k] = CommandOf[u]
      /\ reservations'[k].exempt => u \in excused'
      /\ \/ /\ k \in DOMAIN reservations /\ reservations[k].use = NoUse
            /\ reservations'[k].id = reservations[k].id
            /\ grants' = grants
         \/ /\ k = u
            /\ reservations'[k].id = grants + 1 /\ grants' = grants + 1
      /\ excused \subseteq excused' /\ excused' \subseteq excused \cup {u}
      /\ DOMAIN queue' \subseteq DOMAIN queue
  BY <1>t, AllowRows
<1>1. FreshUnreserved'
  BY <1>t, <1>a DEF IInv, FreshUnreserved
<1>2. QueuedRefused'
  BY <1>t, <1>a DEF IInv, QueuedRefused, TypeOK
<1>3. WaitersAsk'
  BY <1>t, <1>a DEF IInv, WaitersAsk, TypeOK
<1>4. IdsGranted'
  BY <1>t, <1>a DEF IInv, IdsGranted, TypeOK, Reservation
<1>5. RunnersLive'
  BY <1>t DEF IInv, RunnersLive, Live
<1>6. RunnersExcused'
  <2> SUFFICES ASSUME NEW j \in DOMAIN reservations',
                      reservations'[j].expired \/ reservations'[j].exempt,
                      reservations'[j].use \in Use,
                      call'[reservations'[j].use] = "running"
               PROVE  reservations'[j].use \in excused'
    BY DEF RunnersExcused
  <2>1. CASE j = k
    BY <2>1, <1>a
  <2>2. CASE j # k /\ reservations'[j].use # u
    BY <2>2, <1>a, <1>t DEF IInv, RunnersExcused
  <2>3. CASE j # k /\ reservations'[j].use = u
    <3>1. j \in DOMAIN reservations /\ reservations[j].use = u
      BY <2>3, <1>a
    <3> QED BY <3>1 DEF IInv, FreshUnreserved
  <2> QED BY <2>1, <2>2, <2>3
<1>7. RunsReserved'
  <2> SUFFICES ASSUME NEW v \in Use, v \notin excused', call'[v] = "running"
               PROVE  \E j \in DOMAIN reservations' :
                         /\ reservations'[j].use = v
                         /\ OwnerOf[j] = OwnerOf[v] /\ CommandOf[j] = CommandOf[v]
    BY DEF RunsReserved
  <2>1. CASE v = u
    BY <2>1, <1>a
  <2>2. CASE v # u
    <3>1. call[v] = "running" /\ v \notin excused /\ v # NoUse
      BY <2>2, <1>t, <1>a, AdmissionAssumption
    <3>2. PICK j \in DOMAIN reservations :
             /\ reservations[j].use = v
             /\ OwnerOf[j] = OwnerOf[v] /\ CommandOf[j] = CommandOf[v]
      BY <3>1 DEF IInv, RunsReserved
    <3>3. Live(j) /\ ~reservations[j].expired
      BY <3>1, <3>2 DEF IInv, RunnersLive, RunnersExcused, Live
    <3>4. j # k
      BY <3>1, <3>2, <1>a, <1>t
    <3> QED BY <3>2, <3>3, <3>4, <1>a
  <2> QED BY <2>1, <2>2
<1>8. WaitersHold'
  <2> SUFFICES ASSUME NEW w \in Waiter, waiter[w].pc = "reset"
               PROVE  /\ waiter[w].id <= grants'
                      /\ waiter[w].key \in DOMAIN reservations' =>
                           LET r == reservations'[waiter[w].key]
                           IN  r.id = waiter[w].id =>
                                 r.use \in Use /\ call'[r.use] \in {"blocked", "over"}
                      /\ \A v \in Waiter \ {w} : waiter[v].pc = "reset" =>
                           waiter[v].key # waiter[w].key \/ waiter[v].id # waiter[w].id
    BY DEF WaitersHold
  <2>1. waiter[w].id \in Nat /\ waiter[w].id <= grants
    BY <1>t DEF IInv, WaitersHold, TypeOK
  <2>2. waiter[w].id <= grants'
    BY <2>1, <1>a, <1>t
  <2>3. ASSUME waiter[w].key \in DOMAIN reservations',
               reservations'[waiter[w].key].id = waiter[w].id
        PROVE  /\ reservations'[waiter[w].key].use \in Use
               /\ call'[reservations'[waiter[w].key].use] \in {"blocked", "over"}
    <3>1. waiter[w].key # k
      <4>1. SUFFICES ASSUME waiter[w].key = k PROVE FALSE
        OBVIOUS
      <4>2. CASE grants' = grants + 1 /\ reservations'[k].id = grants + 1
        BY <4>1, <4>2, <2>1, <2>3, <1>t
      <4>3. CASE /\ k \in DOMAIN reservations /\ reservations[k].use = NoUse
                 /\ reservations'[k].id = reservations[k].id
        BY <4>1, <4>3, <2>3, AdmissionAssumption DEF IInv, WaitersHold
      <4> QED BY <4>2, <4>3, <1>a
    <3>2. LET r == reservations[waiter[w].key]
          IN  /\ r = reservations'[waiter[w].key]
              /\ r.use \in Use /\ call[r.use] \in {"blocked", "over"}
      BY <3>1, <2>3, <1>a DEF IInv, WaitersHold
    <3> QED BY <3>2, <1>t
  <2> QED BY <2>2, <2>3 DEF IInv, WaitersHold
<1> QED BY <1>1, <1>2, <1>3, <1>4, <1>5, <1>6, <1>7, <1>8 DEF IInv

\* A poll is refused: of a hook, whose call is blocked, of a wrapper, which
\* waits, or of a waiter.
LEMMA PollRefused ==
    ASSUME IInv, TypeOK', NEW u \in Use, Refuse(u),
           UNCHANGED <<dead, exempt>>,
           \/ /\ call[u] \in {"new", "waiting"} /\ UNCHANGED waiter
              /\ \/ u \notin Wrapped /\ call' = [call EXCEPT ![u] = "blocked"]
                 \/ u \in Wrapped /\ call' = [call EXCEPT ![u] = "waiting"]
           \/ /\ UNCHANGED call
              /\ \E w \in Waiter : /\ waiter[w].pc = "admit" /\ waiter[w].key = u
                                   /\ WaiterGoes(w, "try")
    PROVE  IInv'
<1>r. /\ OnlySwept
      /\ DOMAIN queue' \subseteq DOMAIN queue \cup {u}
      /\ grants' = grants /\ excused' = excused
      /\ TypeOK
  BY RefuseRows DEF IInv
<1>c. /\ call \in [Use -> Stage]
      /\ \A v \in Use \ {u} : call'[v] = call[v]
      /\ \A v \in Use : call[v] \in {"blocked", "over"} => call'[v] = call[v]
      /\ \A v \in Use : call'[v] \in {"new", "waiting"} => call[v] \in {"new", "waiting"}
      /\ \A v \in Use : call'[v] = "running" => call[v] = "running"
  BY DEF IInv, TypeOK
<1>w. \A w \in Waiter :
          /\ waiter'[w].key = waiter[w].key /\ waiter'[w].id = waiter[w].id
          /\ waiter'[w].pc \in {"try", "admit"} => waiter[w].pc \in {"try", "admit"}
          /\ waiter'[w].pc = "reset" => waiter[w].pc = "reset"
  BY <1>r DEF WaiterGoes, TypeOK
<1>1. FreshUnreserved'
  BY <1>r, <1>c DEF IInv, FreshUnreserved, OnlySwept
<1>2. QueuedRefused'
  <2>1. u \in Wrapped \/ call'[u] \in {"blocked", "over"}
    BY <1>c DEF IInv, WaitersAsk
  <2> QED BY <1>r, <1>c, <2>1 DEF IInv, QueuedRefused, TypeOK
<1>3. WaitersAsk'
  BY <1>r, <1>c, <1>w DEF IInv, WaitersAsk, OnlySwept, TypeOK
<1>4. IdsGranted'
  BY <1>r DEF IInv, IdsGranted, OnlySwept
<1>5. RunnersLive'
  BY <1>c DEF IInv, RunnersLive, Live
<1>6. RunnersExcused'
  BY <1>r, <1>c DEF IInv, RunnersExcused, OnlySwept
<1>7. RunsReserved'
  BY <1>r, <1>c, SweptRuns
<1>8. WaitersHold'
  BY <1>r, <1>c, <1>w DEF IInv, WaitersHold, OnlySwept
<1> QED BY <1>1, <1>2, <1>3, <1>4, <1>5, <1>6, <1>7, <1>8 DEF IInv

\* A waiter is allowed: the reservation bears the name of the blocked call.
LEMMA WaiterGranted ==
    ASSUME IInv, TypeOK', NEW w \in Waiter, WaiterAllowed(w)
    PROVE  IInv'
<1> DEFINE u == waiter[w].key
<1>k. PICK k \in Use :
          /\ Allow(u, k)
          /\ waiter' = [waiter EXCEPT ![w] =
                [pc |-> "reset", key |-> k, id |-> reservations'[k].id]]
  BY DEF WaiterAllowed
<1>t. /\ TypeOK /\ IdsGranted /\ u \in Use /\ u \notin DOMAIN reservations
      /\ call[u] \in {"blocked", "over"} /\ u \notin Wrapped
      /\ grants \in Nat /\ u # NoUse
      /\ UNCHANGED <<call, dead, exempt>>
      /\ waiter[w].pc = "admit"
  BY WaiterKey, AdmissionAssumption DEF WaiterAllowed, IInv, WaitersAsk, TypeOK
<1>a. /\ \A j \in DOMAIN reservations' \ {k} :
            /\ j \in DOMAIN reservations
            /\ reservations'[j] = reservations[j]
            /\ ~reservations[j].expired
      /\ \A j \in DOMAIN reservations :
            Live(j) /\ ~reservations[j].expired => j \in DOMAIN reservations'
      /\ k \in DOMAIN reservations'
      /\ reservations'[k].use = u /\ ~reservations'[k].expired
      /\ OwnerOf[k] = OwnerOf[u] /\ CommandOf[k] = CommandOf[u]
      /\ reservations'[k].exempt => u \in excused'
      /\ \/ /\ k \in DOMAIN reservations /\ reservations[k].use = NoUse
            /\ reservations'[k].id = reservations[k].id
            /\ grants' = grants
         \/ /\ k = u
            /\ reservations'[k].id = grants + 1 /\ grants' = grants + 1
      /\ excused \subseteq excused' /\ excused' \subseteq excused \cup {u}
      /\ DOMAIN queue' \subseteq DOMAIN queue
  BY <1>t, <1>k, AllowRows
<1>w. /\ waiter'[w].pc = "reset" /\ waiter'[w].key = k
      /\ waiter'[w].id = reservations'[k].id
      /\ \A v \in Waiter \ {w} : waiter'[v] = waiter[v]
  BY <1>k, <1>t DEF TypeOK
<1> HIDE DEF u
<1>1. FreshUnreserved'
  BY <1>t, <1>a DEF IInv, FreshUnreserved
<1>2. QueuedRefused'
  BY <1>t, <1>a DEF IInv, QueuedRefused
<1>3. WaitersAsk'
  <2> SUFFICES ASSUME NEW v \in Waiter, waiter'[v].pc \in {"try", "admit"}
               PROVE  LET q == waiter'[v].key
                      IN  /\ q \notin Wrapped
                          /\ call'[q] \in {"blocked", "over"}
                          /\ q \notin DOMAIN reservations'
                          /\ \A x \in Waiter \ {v} :
                                waiter'[x].pc \in {"try", "admit"} => waiter'[x].key # q
    BY DEF WaitersAsk
  <2>1. v # w /\ waiter'[v] = waiter[v]
    BY <1>w
  <2>2. waiter[v].key # u
    BY <2>1, <1>t DEF IInv, WaitersAsk, u
  <2>3. waiter[v].key \notin DOMAIN reservations'
    BY <2>1, <2>2, <1>a DEF IInv, WaitersAsk
  <2> QED BY <2>1, <2>3, <1>w, <1>t DEF IInv, WaitersAsk
<1>4. IdsGranted'
  BY <1>t, <1>a DEF IInv, IdsGranted, TypeOK, Reservation
<1>5. RunnersLive'
  BY <1>t DEF IInv, RunnersLive, Live
<1>6. RunnersExcused'
  BY <1>t, <1>a DEF IInv, RunnersExcused
<1>7. RunsReserved'
  <2> SUFFICES ASSUME NEW v \in Use, v \notin excused', call'[v] = "running"
               PROVE  \E j \in DOMAIN reservations' :
                         /\ reservations'[j].use = v
                         /\ OwnerOf[j] = OwnerOf[v] /\ CommandOf[j] = CommandOf[v]
    BY DEF RunsReserved
  <2>1. call[v] = "running" /\ v \notin excused /\ v # NoUse
    BY <1>t, <1>a, AdmissionAssumption
  <2>2. PICK j \in DOMAIN reservations :
           /\ reservations[j].use = v
           /\ OwnerOf[j] = OwnerOf[v] /\ CommandOf[j] = CommandOf[v]
    BY <2>1 DEF IInv, RunsReserved
  <2>3. Live(j) /\ ~reservations[j].expired
    BY <2>1, <2>2 DEF IInv, RunnersLive, RunnersExcused, Live
  <2>4. j # k
    BY <2>1, <2>2, <1>a, <1>t
  <2> QED BY <2>2, <2>3, <2>4, <1>a
<1>8. WaitersHold'
  <2>0. reservations'[k].id \in Nat /\ reservations'[k].id <= grants'
    BY <1>a, <1>4 DEF IdsGranted, TypeOK, Reservation
  <2>1. ASSUME NEW v \in Waiter \ {w}, waiter[v].pc = "reset"
        PROVE  /\ waiter[v].id \in Nat /\ waiter[v].id <= grants
               /\ waiter[v].key # k \/ waiter[v].id # reservations'[k].id
    <3>1. waiter[v].id \in Nat /\ waiter[v].id <= grants
      BY <2>1, <1>t DEF IInv, WaitersHold, TypeOK
    <3>2. SUFFICES ASSUME waiter[v].key = k, waiter[v].id = reservations'[k].id
                   PROVE  FALSE
      BY <3>1
    <3>3. CASE grants' = grants + 1 /\ reservations'[k].id = grants + 1
      BY <3>1, <3>2, <3>3, <1>t
    <3>4. CASE /\ k \in DOMAIN reservations /\ reservations[k].use = NoUse
               /\ reservations'[k].id = reservations[k].id
      BY <2>1, <3>2, <3>4, AdmissionAssumption DEF IInv, WaitersHold
    <3> QED BY <3>3, <3>4, <1>a
  <2>2. ASSUME NEW v \in Waiter \ {w}, waiter[v].pc = "reset",
               waiter[v].key \in DOMAIN reservations',
               reservations'[waiter[v].key].id = waiter[v].id
        PROVE  /\ reservations'[waiter[v].key].use \in Use
               /\ call[reservations'[waiter[v].key].use] \in {"blocked", "over"}
    <3>1. waiter[v].key # k
      BY <2>1, <2>2
    <3>2. /\ waiter[v].key \in DOMAIN reservations
          /\ reservations'[waiter[v].key] = reservations[waiter[v].key]
      BY <3>1, <2>2, <1>a
    <3> QED BY <3>2, <2>2 DEF IInv, WaitersHold
  <2>3. grants <= grants'
    BY <1>a, <1>t
  <2>4. ASSUME NEW v \in Waiter, waiter'[v].pc = "reset"
        PROVE  waiter'[v].id <= grants'
    BY <2>0, <2>1, <2>3, <2>4, <1>t, <1>a, <1>w
  <2>5. ASSUME NEW v \in Waiter, waiter'[v].pc = "reset",
               waiter'[v].key \in DOMAIN reservations',
               reservations'[waiter'[v].key].id = waiter'[v].id
        PROVE  /\ reservations'[waiter'[v].key].use \in Use
               /\ call'[reservations'[waiter'[v].key].use] \in {"blocked", "over"}
    BY <2>2, <2>5, <1>t, <1>a, <1>w
  <2>6. ASSUME NEW v \in Waiter, waiter'[v].pc = "reset",
               NEW x \in Waiter \ {v}, waiter'[x].pc = "reset"
        PROVE  waiter'[x].key # waiter'[v].key \/ waiter'[x].id # waiter'[v].id
    BY <2>1, <2>6, <1>w DEF IInv, WaitersHold
  <2> QED BY <2>4, <2>5, <2>6 DEF WaitersHold
<1> QED BY <1>1, <1>2, <1>3, <1>4, <1>5, <1>6, <1>7, <1>8 DEF IInv

\* A waiter frees its reservation: no run loses it, for it bears the name of a
\* call that does not run.
LEMMA WaiterFrees ==
    ASSUME IInv, TypeOK', NEW w \in Waiter, WaiterResets(w)
    PROVE  IInv'
<1> DEFINE k == waiter[w].key
<1>t. /\ TypeOK /\ waiter[w].pc = "reset"
      /\ UNCHANGED <<queue, grants, call, dead, exempt, excused>>
      /\ waiter' = [waiter EXCEPT ![w] = Off]
      /\ NoUse \notin Use
  BY AdmissionAssumption DEF WaiterResets, WaiterEnds, IInv
<1>w. /\ waiter'[w].pc = "off"
      /\ \A v \in Waiter \ {w} : waiter'[v] = waiter[v]
  BY <1>t DEF TypeOK, Off
<1>r. /\ DOMAIN reservations' = DOMAIN reservations
      /\ \A j \in DOMAIN reservations :
            \/ reservations'[j] = reservations[j]
            \/ /\ j = k /\ reservations[j].id = waiter[w].id
               /\ reservations'[j].id = reservations[j].id
               /\ reservations'[j].use = NoUse
  BY DEF WaiterResets, HasRow, IInv, TypeOK, Reservation
<1>h. \A j \in DOMAIN reservations :
          j = k /\ reservations[j].id = waiter[w].id =>
              reservations[j].use \in Use
              /\ call[reservations[j].use] \in {"blocked", "over"}
  BY <1>t DEF IInv, WaitersHold
<1> HIDE DEF k
<1>1. FreshUnreserved'
  BY <1>t, <1>r DEF IInv, FreshUnreserved
<1>2. QueuedRefused'
  BY <1>t DEF IInv, QueuedRefused
<1>3. WaitersAsk'
  BY <1>t, <1>w, <1>r DEF IInv, WaitersAsk
<1>4. IdsGranted'
  BY <1>t, <1>r DEF IInv, IdsGranted
<1>5. RunnersLive'
  BY <1>t DEF IInv, RunnersLive, Live
<1>6. RunnersExcused'
  BY <1>t, <1>r DEF IInv, RunnersExcused
<1>7. RunsReserved'
  BY <1>t, <1>r, <1>h DEF IInv, RunsReserved
<1>8. WaitersHold'
  <2>1. ASSUME NEW v \in Waiter, waiter'[v].pc = "reset",
               waiter'[v].key \in DOMAIN reservations',
               reservations'[waiter'[v].key].id = waiter'[v].id
        PROVE  reservations'[waiter'[v].key] = reservations[waiter'[v].key]
    <3>1. v # w /\ waiter'[v] = waiter[v]
      BY <2>1, <1>w
    <3>2. waiter[v].key # k \/ waiter[v].id # waiter[w].id
      BY <3>1, <2>1, <1>t DEF IInv, WaitersHold, k
    <3> QED BY <3>1, <3>2, <2>1, <1>r
  <2> QED BY <2>1, <1>t, <1>w, <1>r DEF IInv, WaitersHold
<1> QED BY <1>1, <1>2, <1>3, <1>4, <1>5, <1>6, <1>7, <1>8 DEF IInv

\* The sweep on its own.
LEMMA Swept ==
    ASSUME IInv, TypeOK', Cleanup
    PROVE  IInv'
<1>r. /\ OnlySwept /\ DOMAIN queue' \subseteq DOMAIN queue
      /\ UNCHANGED <<grants, call, waiter, dead, exempt, excused>>
      /\ TypeOK
  BY SweepType, TypeOfRows DEF Cleanup, OnlySwept, IInv, RowsOK
<1>1. FreshUnreserved' /\ QueuedRefused'
  BY <1>r DEF IInv, FreshUnreserved, QueuedRefused, OnlySwept
<1>2. WaitersAsk' /\ WaitersHold'
  BY <1>r DEF IInv, WaitersAsk, WaitersHold, OnlySwept
<1>3. IdsGranted' /\ RunnersLive' /\ RunnersExcused'
  BY <1>r DEF IInv, IdsGranted, RunnersLive, RunnersExcused, OnlySwept, Live
<1>4. RunsReserved'
  BY <1>r, SweptRuns
<1> QED BY <1>1, <1>2, <1>3, <1>4 DEF IInv

\* A release takes only what names the call that is over.
LEMMA ReleasedOne ==
    ASSUME IInv, TypeOK', NEW u \in Use, Release(u)
    PROVE  IInv'
<1>t. /\ TypeOK /\ call[u] = "ending" /\ call' = [call EXCEPT ![u] = "over"]
      /\ excused' = excused \ {u}
      /\ UNCHANGED <<queue, grants, waiter, dead, exempt>>
      /\ DOMAIN reservations' = DOMAIN reservations \ Released(u)
      /\ \A j \in DOMAIN reservations' : reservations'[j] = reservations[j]
  BY DEF Release, Restrict, IInv
<1>c. /\ call'[u] = "over"
      /\ \A v \in Use \ {u} : call'[v] = call[v]
  BY <1>t DEF TypeOK
<1>1. FreshUnreserved' /\ QueuedRefused'
  BY <1>t, <1>c DEF IInv, FreshUnreserved, QueuedRefused, TypeOK
<1>2. WaitersAsk' /\ WaitersHold'
  <2>1. WaitersAsk'
    BY <1>t, <1>c DEF IInv, WaitersAsk, TypeOK
  <2>2. WaitersHold'
    BY <1>t, <1>c DEF IInv, WaitersHold
  <2> QED BY <2>1, <2>2
<1>3. IdsGranted' /\ RunnersLive' /\ RunnersExcused'
  BY <1>t, <1>c DEF IInv, IdsGranted, RunnersLive, RunnersExcused, Live
<1>4. RunsReserved'
  BY <1>t, <1>c DEF IInv, RunsReserved, Released
<1> QED BY <1>1, <1>2, <1>3, <1>4 DEF IInv

\* Time runs out for a reservation.
LEMMA Expired ==
    ASSUME IInv, TypeOK', NEW k \in Use, Expire(k)
    PROVE  IInv'
<1>t. /\ TypeOK /\ UNCHANGED <<queue, grants, call, waiter, dead, exempt>>
      /\ excused \subseteq excused'
      /\ k \in DOMAIN reservations
      /\ NoUse \notin Use
  BY AdmissionAssumption DEF Expire, HasRow, IInv
<1>r. /\ DOMAIN reservations' = DOMAIN reservations
      /\ \A j \in DOMAIN reservations :
            /\ reservations'[j].use = reservations[j].use
            /\ reservations'[j].id = reservations[j].id
            /\ reservations'[j].exempt = reservations[j].exempt
            /\ j # k => reservations'[j] = reservations[j]
  BY <1>t DEF Expire, TypeOK, Reservation
<1>1. FreshUnreserved' /\ QueuedRefused'
  BY <1>t, <1>r DEF IInv, FreshUnreserved, QueuedRefused
<1>2. WaitersAsk' /\ WaitersHold'
  BY <1>t, <1>r DEF IInv, WaitersAsk, WaitersHold
<1>3. IdsGranted' /\ RunnersLive'
  BY <1>t, <1>r DEF IInv, IdsGranted, RunnersLive, Live
<1>4. RunnersExcused'
  <2>1. call[reservations[k].use] = "running" /\ reservations[k].use \in Use
            => reservations[k].use \in excused'
    BY <1>t DEF Expire
  <2> QED BY <1>t, <1>r, <2>1 DEF IInv, RunnersExcused
<1>5. RunsReserved'
  BY <1>t, <1>r DEF IInv, RunsReserved
<1> QED BY <1>1, <1>2, <1>3, <1>4, <1>5 DEF IInv

\* An agent ends, and its processes with it.
LEMMA Died ==
    ASSUME IInv, TypeOK', NEW o \in Owner, Die(o)
    PROVE  IInv'
<1>t. /\ TypeOK /\ UNCHANGED <<reservations, queue, grants, exempt>>
      /\ dead' = dead \cup {o}
      /\ excused' = {u \in excused : OwnerOf[u] # o}
      /\ \A u \in Use : call'[u] = IF OwnerOf[u] = o THEN "over" ELSE call[u]
      /\ \A w \in Waiter : waiter'[w] = waiter[w] \/ waiter'[w] = Off
      /\ Off.pc = "off"
  BY DEF Die, IInv, Off
<1>1. FreshUnreserved' /\ QueuedRefused'
  BY <1>t DEF IInv, FreshUnreserved, QueuedRefused, TypeOK
<1>2. WaitersAsk' /\ WaitersHold'
  <2>1. WaitersAsk'
    BY <1>t, WaiterKey DEF IInv, WaitersAsk
  <2>2. WaitersHold'
    BY <1>t DEF IInv, WaitersHold
  <2> QED BY <2>1, <2>2
<1>3. IdsGranted' /\ RunnersLive' /\ RunnersExcused'
  BY <1>t DEF IInv, IdsGranted, RunnersLive, RunnersExcused, Live
<1>4. RunsReserved'
  BY <1>t DEF IInv, RunsReserved
<1> QED BY <1>1, <1>2, <1>3, <1>4 DEF IInv

\* A waiter starts for a request that nobody polls for.
LEMMA WaiterBegins ==
    ASSUME IInv, TypeOK', "share" \notin Faults,
           NEW w \in Waiter, NEW k \in Use, WaiterStarts(w, k)
    PROVE  IInv'
<1>t. /\ TypeOK
      /\ k \in DOMAIN queue /\ k \notin Wrapped /\ ~Polled(k)
      /\ k \notin DOMAIN reservations
      /\ waiter'[w].key = k /\ waiter'[w].pc = "try"
      /\ \A v \in Waiter \ {w} : waiter'[v] = waiter[v]
      /\ UNCHANGED <<reservations, queue, grants, call, dead, exempt, excused>>
  BY DEF WaiterStarts, HasPlace, IInv, TypeOK
<1>1. WaitersAsk'
  <2>1. call[k] \in {"blocked", "over"}
    BY <1>t DEF IInv, QueuedRefused
  <2>2. \A v \in Waiter : waiter[v].key # k
    BY <1>t DEF Polled
  <2> QED BY <1>t, <2>1, <2>2 DEF IInv, WaitersAsk
<1>2. WaitersHold'
  BY <1>t DEF IInv, WaitersHold
<1>3. FreshUnreserved' /\ QueuedRefused' /\ IdsGranted'
  BY <1>t DEF IInv, FreshUnreserved, QueuedRefused, IdsGranted
<1>4. RunnersLive' /\ RunnersExcused' /\ RunsReserved'
  BY <1>t DEF IInv, RunnersLive, RunnersExcused, RunsReserved, Live
<1> QED BY <1>1, <1>2, <1>3, <1>4 DEF IInv

\* Steps of processes that leave the reservations alone, and take at most rows
\* off the queue: a waiter goes on or ends, a call that has no longer to be
\* blocked or allowed moves on.
LEMMA ProcessMoves ==
    ASSUME IInv, TypeOK', UNCHANGED <<reservations, grants, dead>>,
           DOMAIN queue' \subseteq DOMAIN queue,
           \A w \in Waiter :
               \/ waiter'[w] = waiter[w]
               \/ waiter'[w].pc \in {"off", "killed"}
               \/ /\ waiter[w].pc = "try" /\ waiter'[w].pc = "admit"
                  /\ waiter'[w].key = waiter[w].key,
           \A u \in Use :
               \/ call'[u] = call[u] /\ (u \in excused <=> u \in excused')
               \/ /\ call[u] \notin {"new", "blocked", "over"}
                  /\ call'[u] \in {"ending", "over"}
    PROVE  IInv'
<1>t. TypeOK
  BY DEF IInv
<1>1. FreshUnreserved'
  BY DEF IInv, FreshUnreserved
<1>2. QueuedRefused'
  BY <1>t DEF IInv, QueuedRefused, TypeOK
<1>3. WaitersAsk'
  BY <1>t, WaiterKey DEF IInv, WaitersAsk
<1>4. WaitersHold'
  BY <1>t DEF IInv, WaitersHold
<1>5. IdsGranted' /\ RunnersLive'
  BY DEF IInv, IdsGranted, RunnersLive, Live
<1>6. RunnersExcused' /\ RunsReserved'
  BY DEF IInv, RunnersExcused, RunsReserved
<1> QED BY <1>1, <1>2, <1>3, <1>4, <1>5, <1>6 DEF IInv

LEMMA InitInv == Init => IInv
<1> SUFFICES ASSUME Init PROVE IInv
  OBVIOUS
<1>1. TypeOK
  BY InitType
<1>2. FreshUnreserved /\ QueuedRefused /\ IdsGranted /\ RunnersExcused
  BY DEF Init, FreshUnreserved, QueuedRefused, IdsGranted, RunnersExcused
<1>3. WaitersAsk /\ WaitersHold /\ RunnersLive /\ RunsReserved
  BY DEF Init, Off, WaitersAsk, WaitersHold, RunnersLive, RunsReserved
<1> QED BY <1>1, <1>2, <1>3 DEF IInv

LEMMA NextInv == "share" \notin Faults /\ IInv /\ [Next]_vars => IInv'
<1> SUFFICES ASSUME "share" \notin Faults, IInv, [Next]_vars PROVE IInv'
  OBVIOUS
<1>t. TypeOK /\ TypeOK'
  BY NextType DEF IInv
<1>1. ASSUME NEW u \in Use, Gate(u) PROVE IInv'
  BY <1>1, <1>t, RunStarts, PollRefused DEF Gate
<1>2. ASSUME NEW u \in Use, WrapperRuns(u) PROVE IInv'
  BY <1>2, <1>t, RunStarts DEF WrapperRuns
<1>3. ASSUME NEW u \in Use, WrapperPolls(u) PROVE IInv'
  BY <1>3, <1>t, PollRefused DEF WrapperPolls
<1>4. ASSUME NEW w \in Waiter, WaiterRefused(w) PROVE IInv'
  BY <1>4, <1>t, PollRefused, WaiterKey DEF WaiterRefused
<1>5. ASSUME NEW w \in Waiter, WaiterAllowed(w) PROVE IInv'
  BY <1>5, <1>t, WaiterGranted
<1>6. ASSUME NEW w \in Waiter, WaiterResets(w) PROVE IInv'
  BY <1>6, <1>t, WaiterFrees
<1>7. ASSUME NEW u \in Use, Release(u) \/ Expire(u) PROVE IInv'
  BY <1>7, <1>t, ReleasedOne, Expired
<1>8. CASE Cleanup
  BY <1>8, <1>t, Swept
<1>9. ASSUME NEW o \in Owner, Die(o) PROVE IInv'
  BY <1>9, <1>t, Died
<1>10. ASSUME NEW w \in Waiter, NEW k \in Use, WaiterStarts(w, k) PROVE IInv'
  BY <1>10, <1>t, WaiterBegins
<1>q. ASSUME NEW k, CancelQueued(k) PROVE DOMAIN queue' \subseteq DOMAIN queue
  BY <1>q DEF CancelQueued, Without
<1>11. ASSUME NEW u \in Use, CommandEnds(u) \/ WrapperGivesUp(u) \/ Abandon(u)
       PROVE  IInv'
  <2>1. /\ UNCHANGED <<reservations, grants, dead, waiter>>
        /\ DOMAIN queue' \subseteq DOMAIN queue
        /\ call[u] \notin {"new", "blocked", "over"}
        /\ call'[u] \in {"ending", "over"}
        /\ \A v \in Use \ {u} : call'[v] = call[v]
        /\ \A v \in Use \ {u} : v \in excused <=> v \in excused'
    BY <1>11, <1>t, <1>q DEF CommandEnds, WrapperGivesUp, Abandon, TypeOK
  <2> QED BY <2>1, <1>t, ProcessMoves
<1>12. ASSUME NEW w \in Waiter, WaiterReads(w) \/ WaiterGivesUp(w) \/ WaiterKilled(w)
       PROVE  IInv'
  <2>1. /\ UNCHANGED <<reservations, grants, dead, call, excused>>
        /\ DOMAIN queue' \subseteq DOMAIN queue
    BY <1>12, <1>q DEF WaiterReads, WaiterGivesUp, WaiterKilled
  <2>2. /\ \A v \in Waiter \ {w} : waiter'[v] = waiter[v]
        /\ \/ waiter'[w].pc \in {"off", "killed"}
           \/ /\ waiter[w].pc = "try" /\ waiter'[w].pc = "admit"
              /\ waiter'[w].key = waiter[w].key
    BY <1>12, <1>t
    DEF WaiterReads, WaiterGivesUp, WaiterKilled, WaiterGoes, WaiterEnds, Off, TypeOK
  <2> QED BY <2>1, <2>2, <1>t, ProcessMoves
<1>13. ASSUME NEW u \in Use, StopCancels(u) \/ GoIdle(u) PROVE IInv'
  <2>1. /\ UNCHANGED <<reservations, grants, dead, call, excused, waiter>>
        /\ DOMAIN queue' \subseteq DOMAIN queue
    BY <1>13, <1>q DEF StopCancels, GoIdle
  <2> QED BY <2>1, <1>t, ProcessMoves
<1>14. ASSUME NEW o \in Owner, Exempt(o) PROVE IInv'
  BY <1>14, <1>t, ProcessMoves DEF Exempt
<1>15. CASE UNCHANGED vars
  BY <1>15, <1>t, ProcessMoves DEF vars
<1> QED
  BY <1>1, <1>2, <1>3, <1>4, <1>5, <1>6, <1>7, <1>8, <1>9, <1>10, <1>11, <1>12,
     <1>13, <1>14, <1>15
  DEF Next, WaiterSteps

\* As long as no two processes poll for one request, every command that runs,
\* exempt and overdue ones apart, runs on a reservation of its own.
THEOREM RunsAreReserved ==
    ASSUME "share" \notin Faults
    PROVE  Spec => []RunsReserved
<1>1. IInv => RunsReserved
  BY DEF IInv
<1> QED BY <1>1, InitInv, NextInv, PTL DEF Spec

\* The reservations of the heavy runs are as many as the runs.
LEMMA ReservedRunsBounded == IInv /\ SlotBound => HeavyRunsBounded
<1> SUFFICES ASSUME IInv, SlotBound PROVE HeavyRunsBounded
  OBVIOUS
<1> DEFINE runs == {u \in Use \ excused : call[u] = "running" /\ CommandOf[u] \in Heavy}
           row == [u \in runs |-> CHOOSE k \in DOMAIN reservations :
                       /\ reservations[k].use = u
                       /\ OwnerOf[k] = OwnerOf[u] /\ CommandOf[k] = CommandOf[u]]
<1>1. \A u \in runs : /\ row[u] \in DOMAIN reservations
                      /\ reservations[row[u]].use = u
                      /\ CommandOf[row[u]] = CommandOf[u]
  BY DEF IInv, RunsReserved
<1>2. \A u \in runs : row[u] \in Counted
  <2> SUFFICES ASSUME NEW u \in runs PROVE row[u] \in Counted
    OBVIOUS
  <2>1. /\ row[u] \in DOMAIN reservations
        /\ reservations[row[u]].use = u
        /\ CommandOf[row[u]] = CommandOf[u]
    BY <1>1
  <2>2. /\ u \in Use /\ u \notin excused /\ call[u] = "running"
        /\ CommandOf[u] \in Heavy
    OBVIOUS
  <2> HIDE DEF runs, row
  <2>3. ~reservations[row[u]].exempt
    BY <2>1, <2>2 DEF IInv, RunnersExcused
  <2> QED BY <2>1, <2>2, <2>3 DEF Counted, HeavyKeys
<1>3. row \in Injection(runs, Counted)
  <2>1. row \in [runs -> Counted]
    BY <1>2
  <2>2. \A u, v \in runs : row[u] = row[v] => u = v
    <3> HIDE DEF runs, row
    <3> QED BY <1>1
  <2> QED
    <3> HIDE DEF runs, row
    <3> QED BY <2>1, <2>2 DEF Injection, IsInjective
<1>4. IsFiniteSet(Counted)
  <2>1. Counted \subseteq Use
    BY DEF Counted, HeavyKeys, IInv, TypeOK
  <2> QED BY <2>1, FiniteAssumption, FS_Subset
<1>5. IsFiniteSet(runs) /\ Cardinality(runs) <= Cardinality(Counted)
  <2> HIDE DEF runs, row
  <2> QED BY <1>3, <1>4, FS_Injection
<1>6. Cardinality(runs) \in Nat /\ Cardinality(Counted) \in Nat
  BY <1>4, <1>5, FS_CardinalityType
<1>7. Cardinality(Counted) <= Slots
  BY DEF SlotBound, Counted
<1>8. Cardinality(runs) <= Slots
  <2> HIDE DEF runs, row
  <2> QED BY <1>5, <1>6, <1>7, AdmissionAssumption
<1> QED BY <1>8 DEF HeavyRunsBounded

\* Under the same condition no more heavy commands run than there are slots.
THEOREM HeavyRunsAreBounded ==
    ASSUME "share" \notin Faults
    PROVE  Spec => []HeavyRunsBounded
BY InitInv, NextInv, SlotsBounded, ReservedRunsBounded, PTL DEF Spec
=============================================================================
