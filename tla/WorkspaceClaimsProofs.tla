------------------------- MODULE WorkspaceClaimsProofs -------------------------
(***************************************************************************)
(* Proofs about WorkspaceClaims, for every set of tasks, scopes, owners    *)
(* and ttls.  The plan: StepShape says in one place what any call can do   *)
(* to the leases; the theorems follow from it without looking at a single  *)
(* action again.                                                           *)
(***************************************************************************)
EXTENDS WorkspaceClaims, TLAPS

\* Overlap is symmetric: the order in which two claims arrive does not matter.
LEMMA OverlapSymmetric ==
    ASSUME NEW l, NEW r, ScopesOverlap(l, r)
    PROVE  ScopesOverlap(r, l)
BY DEF ScopesOverlap

\* Two scope tuples that both cover a path overlap: of two prefixes of one
\* path, the shorter contains the longer.
LEMMA SharedPathOverlaps ==
    ASSUME NEW l \in SUBSET Scope, NEW r \in SUBSET Scope, NEW f \in Scope,
           Covers(l, f), Covers(r, f)
    PROVE  ScopesOverlap(l, r)
<1>1. PICK a \in l : Contains(a, f)
  BY DEF Covers
<1>2. PICK b \in r : Contains(b, f)
  BY DEF Covers
<1>3. a \in Seq(Segment) /\ b \in Seq(Segment) /\ Len(a) \in Nat /\ Len(b) \in Nat
  BY DEF Scope
<1>4. CASE Len(a) <= Len(b)
  <2>1. Contains(a, b)
    BY <1>1, <1>2, <1>3, <1>4 DEF Contains
  <2> QED BY <2>1 DEF ScopesOverlap
<1>5. CASE Len(b) <= Len(a)
  <2>1. Contains(b, a)
    BY <1>1, <1>2, <1>3, <1>5 DEF Contains
  <2> QED BY <2>1 DEF ScopesOverlap
<1> QED BY <1>3, <1>4, <1>5

-----------------------------------------------------------------------------
(***************************************************************************)
(* Types.                                                                  *)
(***************************************************************************)
LEMMA ZeroInt == 0 \in Int
OBVIOUS

LEMMA LeftInt ==
    ASSUME NEW ttl \in Ttl, NEW lag \in Lag
    PROVE  ttl - lag \in Int
BY ClaimsAssumption DEF Lag

LEMMA RowUpdate ==
    ASSUME NEW row \in Row, NEW s \in STATES, NEW l \in Int
    PROVE  [row EXCEPT !.state = s, !.left = l] \in Row
BY DEF Row

LEMMA RowRenewal ==
    ASSUME NEW row \in Row, NEW l \in Int, NEW ttl \in Ttl,
           NEW pid \in Process \cup {NoProcess}
    PROVE  [row EXCEPT !.left = l, !.ttl = ttl, !.pid = pid] \in Row
BY DEF Row

LEMMA CleanedType ==
    ASSUME TypeOK, NEW lag \in Lag, NEW gone
    PROVE  /\ DOMAIN Cleaned(lag, gone) = DOMAIN claims
           /\ Cleaned(lag, gone) \in [DOMAIN claims -> Row]
<1>1. ASSUME NEW row \in Row
      PROVE  CleanedRow(row, lag, gone) \in Row
  <2>1. "RETRYABLE" \in STATES
    BY DEF STATES
  <2>2. [row EXCEPT !.state = "RETRYABLE", !.left = 0] \in Row
    BY <2>1, RowUpdate, ZeroInt
  <2> QED BY <2>2 DEF CleanedRow
<1>2. \A t \in DOMAIN claims : claims[t] \in Row
  BY DEF TypeOK
<1> QED BY <1>1, <1>2 DEF Cleaned

LEMMA NewRowType ==
    ASSUME NEW req \in Request, NEW s \in STATES, NEW lag \in Lag
    PROVE  NewRow(req, s, lag) \in Row
<1>1. req.ttl \in Ttl
  BY DEF Request
<1>2. req.ttl - lag \in Int
  BY <1>1, LeftInt
<1> DEFINE l == req.ttl - lag
<1>3. l \in Int
  BY <1>2
<1> HIDE DEF l
<1>4. [base |-> req.base, scopes |-> req.scopes, owner |-> req.owner,
       worker |-> req.worker, pid |-> req.pid, state |-> s,
       ttl |-> req.ttl, left |-> l] \in Row
  BY <1>3 DEF Row, Request
<1> QED BY <1>4 DEF NewRow, l

LEMMA PutType ==
    ASSUME NEW D \in SUBSET Task, NEW tbl \in [D -> Row], NEW t \in Task,
           NEW row \in Row
    PROVE  /\ DOMAIN Put(tbl, t, row) \subseteq Task
           /\ Put(tbl, t, row) \in [DOMAIN Put(tbl, t, row) -> Row]
BY DEF Put

LEMMA CallType ==
    ASSUME TypeOK, NEW t \in Task, Call(t)
    PROVE  TypeOK'
<1> USE ClaimsAssumption
<1>1. ASSUME NEW lag \in Lag, NEW req \in Request, Claim(t, req, lag)
      PROVE  TypeOK'
  <2> DEFINE tbl == Cleaned(lag, {})
  <2>1. tbl \in [DOMAIN claims -> Row] /\ DOMAIN claims \subseteq Task
    BY CleanedType DEF TypeOK
  <2>2. CASE ClaimRefused(t, req, lag)
    BY <2>1, <2>2 DEF ClaimRefused, TypeOK
  <2>3. CASE ClaimRenewed(t, req, lag)
    <3>1. req.ttl \in Ttl /\ req.pid \in Process \cup {NoProcess}
      BY DEF Request
    <3>2. req.ttl - lag \in Int
      BY <3>1, LeftInt
    <3>3. t \in DOMAIN claims /\ tbl[t] \in Row
      BY <2>1, <2>3 DEF ClaimRenewed, Leased
    <3>4. [tbl[t] EXCEPT !.left = req.ttl - lag, !.ttl = req.ttl, !.pid = req.pid] \in Row
      BY <3>1, <3>2, <3>3, RowRenewal
    <3>5. claims' = [tbl EXCEPT ![t] =
              [tbl[t] EXCEPT !.left = req.ttl - lag, !.ttl = req.ttl, !.pid = req.pid]]
      BY <2>1, <2>3, <3>3 DEF ClaimRenewed
    <3> QED BY <2>1, <2>3, <3>4, <3>5 DEF ClaimRenewed, TypeOK
  <2>4. CASE ClaimQueued(t, req, lag)
    <3>1. NewRow(req, "QUEUED", lag) \in Row
      BY NewRowType DEF STATES, EXPIRING_STATES
    <3> QED BY <2>1, <2>4, <3>1, PutType DEF ClaimQueued, TypeOK
  <2>5. CASE ClaimGranted(t, req, lag)
    <3>1. NewRow(req, "CLAIMED", lag) \in Row
      BY NewRowType DEF STATES, EXPIRING_STATES, LEASE_STATES
    <3> QED BY <2>1, <2>5, <3>1, PutType DEF ClaimGranted, TypeOK
  <2> QED BY <1>1, <2>2, <2>3, <2>4, <2>5 DEF Claim
<1>2. ASSUME NEW lag \in Lag, NEW ttl \in Ttl, NEW target \in STATES,
             Transition(t, target, ttl, lag)
      PROVE  TypeOK'
  <2>1. ttl - lag \in Int
    BY LeftInt
  <2> QED BY <1>2, <2>1, CleanedType DEF Transition, TypeOK, Row
<1>3. ASSUME NEW lag \in Lag, NEW ttl \in Ttl, Heartbeat(t, ttl, lag)
      PROVE  TypeOK'
  <2>1. ttl - lag \in Int
    BY LeftInt
  <2> QED BY <1>3, <2>1, CleanedType DEF Heartbeat, TypeOK, Row
<1>4. ASSUME NEW outcome \in ReleaseOutcomes, Release(t, outcome)
      PROVE  TypeOK'
  <2>1. outcome \in STATES
    BY DEF ReleaseOutcomes, STATES, TERMINAL_STATES
  <2> QED BY <1>4, <2>1 DEF Release, TypeOK, Row
<1> QED BY <1>1, <1>2, <1>3, <1>4 DEF Call

LEMMA EnvironmentType ==
    ASSUME TypeOK, Environment
    PROVE  TypeOK'
<1>1. ASSUME NEW lag \in Lag, NEW gone \in SUBSET dead, Cleanup(lag, gone)
      PROVE  TypeOK'
  BY <1>1, CleanedType DEF Cleanup, TypeOK
<1>2. ASSUME NEW p \in Process, Die(p)
      PROVE  TypeOK'
  BY <1>2 DEF Die, TypeOK
<1>3. CASE Tick
  BY <1>3 DEF Tick, TypeOK, Row
<1> QED BY <1>1, <1>2, <1>3 DEF Environment

LEMMA InitType == Init => TypeOK
BY DEF Init, TypeOK

LEMMA NextType == TypeOK /\ [Next]_vars => TypeOK'
<1>1. TypeOK /\ UNCHANGED vars => TypeOK'
  BY DEF TypeOK, vars
<1> QED BY <1>1, CallType, EnvironmentType DEF Next

\* The table keeps its types.
THEOREM TypeCorrect == Spec => []TypeOK
BY InitType, NextType, PTL DEF Spec

-----------------------------------------------------------------------------
(***************************************************************************)
(* The shape of a step.                                                    *)
(***************************************************************************)
NoNewLease == \A u \in DOMAIN claims' : Leased(claims', u) => Leased(claims, u)

DoneTasks == {t \in DOMAIN claims : claims[t].state = "DONE"}

\* g holds a new lease; every other lease was there before and is disjoint
\* from the scopes of g.
NewLease(g) ==
    /\ Leased(claims', g)
    /\ DoneTasks' = DoneTasks
    /\ g \in DOMAIN claims => claims[g].state \notin TERMINAL_STATES
    /\ \A u \in DOMAIN claims' \ {g} :
          Leased(claims', u) =>
             /\ Leased(claims, u)
             /\ claims'[u].base = claims'[g].base
                   => ~ScopesOverlap(claims'[g].scopes, claims'[u].scopes)

SameIdentity(old, new) ==
    new.base = old.base /\ new.scopes = old.scopes /\ new.owner = old.owner

RowsKept ==
    \A u \in DOMAIN claims :
        /\ u \in DOMAIN claims'
        /\ SameIdentity(claims[u], claims'[u])
        /\ claims[u].state = "DONE" => claims'[u].state = "DONE"

StepShape == RowsKept /\ (NoNewLease \/ \E g \in Task : NewLease(g))

\* The sweep ends leases and keeps identities and final states; what is leased
\* after it has not expired.
LEMMA CleanedShape ==
    ASSUME TypeOK, NEW lag \in Lag, NEW gone
    PROVE  \A u \in DOMAIN claims :
              /\ u \in DOMAIN Cleaned(lag, gone)
              /\ SameIdentity(claims[u], Cleaned(lag, gone)[u])
              /\ Cleaned(lag, gone)[u].state
                    \in {claims[u].state} \cup (IF claims[u].state \in EXPIRING_STATES
                                                THEN {"RETRYABLE"} ELSE {})
              /\ Leased(Cleaned(lag, gone), u) => Leased(claims, u)
              /\ Leased(Cleaned(lag, gone), u)
                    => Cleaned(lag, gone)[u].left + lag > 0
<1> SUFFICES ASSUME NEW u \in DOMAIN claims
             PROVE  /\ u \in DOMAIN Cleaned(lag, gone)
                    /\ SameIdentity(claims[u], Cleaned(lag, gone)[u])
                    /\ Cleaned(lag, gone)[u].state
                          \in {claims[u].state} \cup (IF claims[u].state \in EXPIRING_STATES
                                                      THEN {"RETRYABLE"} ELSE {})
                    /\ Leased(Cleaned(lag, gone), u) => Leased(claims, u)
                    /\ Leased(Cleaned(lag, gone), u)
                          => Cleaned(lag, gone)[u].left + lag > 0
  OBVIOUS
<1>1. claims[u] \in Row
  BY DEF TypeOK
<1>2. Cleaned(lag, gone)[u] = CleanedRow(claims[u], lag, gone)
      /\ u \in DOMAIN Cleaned(lag, gone)
  BY DEF Cleaned
<1>3. CASE Stale(claims[u], lag, gone)
  <2>1. CleanedRow(claims[u], lag, gone)
          = [claims[u] EXCEPT !.state = "RETRYABLE", !.left = 0]
    BY <1>3 DEF CleanedRow
  <2>2. claims[u].state \in EXPIRING_STATES
    BY <1>3 DEF Stale
  <2>3. "RETRYABLE" \notin LEASE_STATES
    BY DEF LEASE_STATES
  <2>4. /\ CleanedRow(claims[u], lag, gone).state = "RETRYABLE"
        /\ SameIdentity(claims[u], CleanedRow(claims[u], lag, gone))
    BY <1>1, <2>1 DEF SameIdentity, Row
  <2> QED BY <1>2, <2>2, <2>3, <2>4 DEF Leased
<1>4. CASE ~Stale(claims[u], lag, gone)
  <2>1. CleanedRow(claims[u], lag, gone) = claims[u]
    BY <1>4 DEF CleanedRow
  <2>2. claims[u].left \in Int /\ lag \in Int
    BY <1>1, ClaimsAssumption DEF Row, Lag
  <2>3. claims[u].state \in EXPIRING_STATES => claims[u].left + lag > 0
    BY <1>4, <2>2 DEF Stale
  <2> QED BY <1>2, <2>1, <2>3 DEF Leased, SameIdentity, EXPIRING_STATES
<1> QED BY <1>3, <1>4

\* No conflict in the swept table means that every other lease is disjoint.
LEMMA NoConflictDisjoint ==
    ASSUME TypeOK, NEW lag \in Lag, NEW t, NEW base, NEW scopes,
           Conflicts(Cleaned(lag, {}), t, base, scopes, lag) = {}
    PROVE  \A u \in DOMAIN claims \ {t} :
              /\ Leased(Cleaned(lag, {}), u)
              /\ Cleaned(lag, {})[u].base = base
              => ~ScopesOverlap(scopes, Cleaned(lag, {})[u].scopes)
BY CleanedShape DEF Conflicts

LEMMA SweptOnly ==
    ASSUME TypeOK, NEW lag \in Lag, NEW gone, claims' = Cleaned(lag, gone)
    PROVE  RowsKept /\ NoNewLease
<1>1. DOMAIN claims' = DOMAIN claims
  BY CleanedType
<1>2. "DONE" \notin EXPIRING_STATES
  BY DEF EXPIRING_STATES, LEASE_STATES
<1> QED BY <1>1, <1>2, CleanedShape DEF RowsKept, NoNewLease

LEMMA ClaimShape ==
    ASSUME TypeOK, NEW t \in Task, NEW lag \in Lag, NEW req \in Request,
           Claim(t, req, lag)
    PROVE  StepShape
<1> DEFINE tbl == Cleaned(lag, {})
<1>1. DOMAIN tbl = DOMAIN claims /\ tbl \in [DOMAIN claims -> Row]
  BY CleanedType
<1>2. CASE ClaimRefused(t, req, lag)
  BY <1>2, SweptOnly DEF ClaimRefused, StepShape
<1>3. CASE ClaimRenewed(t, req, lag)
  <2>1. t \in DOMAIN claims /\ Leased(tbl, t)
    BY <1>1, <1>3 DEF ClaimRenewed, Leased
  <2>2. \A u \in DOMAIN claims :
           /\ u \in DOMAIN claims'
           /\ SameIdentity(tbl[u], claims'[u])
           /\ claims'[u].state = tbl[u].state
    BY <1>1, <1>3 DEF ClaimRenewed, SameIdentity, Row
  <2>3. DOMAIN claims' = DOMAIN claims
    BY <1>1, <1>3 DEF ClaimRenewed
  <2>4. "DONE" \notin EXPIRING_STATES
    BY DEF EXPIRING_STATES, LEASE_STATES
  <2> HIDE DEF tbl
  <2>5. RowsKept
    BY <2>2, <2>4, CleanedShape DEF RowsKept, SameIdentity, tbl
  <2>6. NoNewLease
    BY <1>1, <2>2, <2>3, CleanedShape DEF NoNewLease, Leased, tbl
  <2> QED BY <2>5, <2>6 DEF StepShape
<1>4. CASE ClaimQueued(t, req, lag) \/ ClaimGranted(t, req, lag)
  <2>1. PICK s \in {"QUEUED", "CLAIMED"} :
           /\ claims' = Put(tbl, t, NewRow(req, s, lag))
           /\ s = "CLAIMED" => Conflicts(tbl, t, req.base, req.scopes, lag) = {}
    BY <1>4 DEF ClaimQueued, ClaimGranted
  <2>2. ~Refused(tbl, t, req) /\ ~Leased(tbl, t)
    BY <1>4 DEF ClaimQueued, ClaimGranted
  <2>3. /\ DOMAIN claims' = DOMAIN claims \cup {t}
        /\ claims'[t] = NewRow(req, s, lag)
        /\ \A u \in DOMAIN claims \ {t} : claims'[u] = tbl[u]
    BY <1>1, <2>1 DEF Put
  <2>4. t \in DOMAIN claims =>
           /\ tbl[t].base = req.base
           /\ tbl[t].scopes = req.scopes
           /\ tbl[t].owner = req.owner
           /\ tbl[t].state \notin TERMINAL_STATES
    BY <1>1, <2>2 DEF Refused, IdentityMismatch
  <2>5. /\ claims'[t].base = req.base
        /\ claims'[t].scopes = req.scopes
        /\ claims'[t].owner = req.owner
        /\ claims'[t].state = s
    BY <2>3 DEF NewRow
  <2>6. "DONE" \in TERMINAL_STATES /\ "DONE" \notin EXPIRING_STATES
        /\ TERMINAL_STATES \cap EXPIRING_STATES = {}
        /\ "QUEUED" \notin LEASE_STATES
    BY DEF EXPIRING_STATES, LEASE_STATES, TERMINAL_STATES
  <2>7. t \in DOMAIN claims => claims[t].state \notin TERMINAL_STATES
    BY <2>4, <2>6, CleanedShape
  <2>8. RowsKept
    <3> SUFFICES ASSUME NEW u \in DOMAIN claims
                 PROVE  /\ u \in DOMAIN claims'
                        /\ SameIdentity(claims[u], claims'[u])
                        /\ claims[u].state = "DONE" => claims'[u].state = "DONE"
      BY DEF RowsKept
    <3>1. CASE u = t
      BY <2>3, <2>4, <2>5, <2>6, <2>7, <3>1, CleanedShape DEF SameIdentity
    <3>2. CASE u # t
      BY <2>3, <2>6, <3>2, CleanedShape
    <3> QED BY <3>1, <3>2
  <2>9. \A u \in DOMAIN claims' \ {t} :
           Leased(claims', u) => u \in DOMAIN claims /\ Leased(tbl, u) /\ Leased(claims, u)
    BY <1>1, <2>3, CleanedShape DEF Leased
  <2>10. CASE s = "QUEUED"
    <3>1. ~Leased(claims', t)
      BY <2>5, <2>6, <2>10 DEF Leased
    <3>2. NoNewLease
      BY <2>9, <3>1 DEF NoNewLease
    <3> QED BY <2>8, <3>2 DEF StepShape
  <2>11. CASE s = "CLAIMED"
    <3>1. \A u \in DOMAIN claims \ {t} :
             Leased(tbl, u) /\ tbl[u].base = req.base
             => ~ScopesOverlap(req.scopes, tbl[u].scopes)
      BY <2>1, <2>11, NoConflictDisjoint
    <3>2. Leased(claims', t)
      BY <2>3, <2>5, <2>11 DEF Leased, LEASE_STATES
    <3>3. \A u \in DOMAIN claims \ {t} :
             claims'[u].state = "DONE" <=> claims[u].state = "DONE"
      BY <2>3, <2>6, CleanedShape
    <3>4. DoneTasks' = DoneTasks
      BY <2>3, <2>5, <2>6, <2>7, <2>11, <3>3 DEF DoneTasks
    <3>5. NewLease(t)
      BY <2>3, <2>5, <2>7, <2>9, <3>1, <3>2, <3>4 DEF NewLease
    <3> QED BY <2>8, <3>5 DEF StepShape
  <2> QED BY <2>10, <2>11
<1> QED BY <1>2, <1>3, <1>4 DEF Claim

LEMMA TransitionShape ==
    ASSUME TypeOK, NEW t \in Task, NEW lag \in Lag, NEW ttl \in Ttl,
           NEW target \in STATES, Transition(t, target, ttl, lag)
    PROVE  StepShape
<1> DEFINE tbl == Cleaned(lag, {})
<1>1. DOMAIN tbl = DOMAIN claims /\ tbl \in [DOMAIN claims -> Row]
  BY CleanedType
<1>2. /\ t \in DOMAIN claims
      /\ MayLeave(tbl[t].state, target)
      /\ EnterLease(tbl, t, target, lag)
  BY <1>1 DEF Transition
<1>3. /\ DOMAIN claims' = DOMAIN claims
      /\ \A u \in DOMAIN claims \ {t} : claims'[u] = tbl[u]
      /\ SameIdentity(tbl[t], claims'[t])
      /\ claims'[t].state = target
  BY <1>1, <1>2 DEF Transition, SameIdentity, Row
<1>4. /\ "DONE" \notin EXPIRING_STATES
      /\ LEASE_STATES \subseteq EXPIRING_STATES
      /\ TERMINAL_STATES \cap EXPIRING_STATES = {}
  BY DEF EXPIRING_STATES, LEASE_STATES, TERMINAL_STATES
<1>5. tbl[t].state # "DONE"
  BY <1>2 DEF MayLeave, ALLOWED_TRANSITIONS
<1> HIDE DEF tbl
<1>6. RowsKept
  <2> SUFFICES ASSUME NEW u \in DOMAIN claims
               PROVE  /\ u \in DOMAIN claims'
                      /\ SameIdentity(claims[u], claims'[u])
                      /\ claims[u].state = "DONE" => claims'[u].state = "DONE"
    BY DEF RowsKept
  <2>1. SameIdentity(claims[u], tbl[u])
        /\ (claims[u].state = "DONE" => tbl[u].state = "DONE")
    BY <1>4, CleanedShape DEF tbl
  <2> QED BY <1>2, <1>3, <1>5, <2>1 DEF SameIdentity
<1>7. \A u \in DOMAIN claims' \ {t} :
         Leased(claims', u) => Leased(tbl, u) /\ Leased(claims, u)
  BY <1>1, <1>3, CleanedShape DEF Leased, tbl
<1>8. CASE ~(target \in LEASE_STATES /\ tbl[t].state \notin LEASE_STATES)
  <2>1. Leased(claims', t) => Leased(claims, t)
    BY <1>1, <1>2, <1>3, <1>8, CleanedShape DEF Leased, tbl
  <2> QED BY <1>6, <1>7, <2>1 DEF NoNewLease, StepShape
<1>9. CASE target \in LEASE_STATES /\ tbl[t].state \notin LEASE_STATES
  <2>1. \A u \in DOMAIN claims \ {t} :
           Leased(tbl, u) /\ tbl[u].base = tbl[t].base
           => ~ScopesOverlap(tbl[t].scopes, tbl[u].scopes)
    BY <1>2, <1>9, NoConflictDisjoint DEF EnterLease, tbl
  <2>2. claims[t].state \notin TERMINAL_STATES
    <3>1. tbl[t].state # "FAILED"
      BY <1>2, <1>9 DEF MayLeave, ALLOWED_TRANSITIONS, LEASE_STATES
    <3>2. claims[t].state \in TERMINAL_STATES => tbl[t].state = claims[t].state
      BY <1>2, <1>4, CleanedShape DEF tbl
    <3> QED BY <1>5, <3>1, <3>2 DEF TERMINAL_STATES
  <2>3. Leased(claims', t)
    BY <1>2, <1>3, <1>9 DEF Leased
  <2>4. \A u \in DOMAIN claims \ {t} :
           claims'[u].state = "DONE" <=> claims[u].state = "DONE"
    BY <1>3, <1>4, CleanedShape DEF tbl
  <2>5. DoneTasks' = DoneTasks
    BY <1>3, <1>4, <1>9, <2>2, <2>4 DEF DoneTasks, TERMINAL_STATES
  <2>6. NewLease(t)
    BY <1>2, <1>3, <1>7, <2>1, <2>2, <2>3, <2>5 DEF NewLease, SameIdentity
  <2> QED BY <1>6, <2>6 DEF StepShape
<1> QED BY <1>8, <1>9

LEMMA NextShape ==
    ASSUME TypeOK, [Next]_vars
    PROVE  StepShape
<1>1. ASSUME NEW t \in Task, NEW lag \in Lag, NEW ttl \in Ttl, Heartbeat(t, ttl, lag)
      PROVE  StepShape
  <2> DEFINE tbl == Cleaned(lag, {})
  <2>1. DOMAIN tbl = DOMAIN claims /\ tbl \in [DOMAIN claims -> Row]
    BY CleanedType
  <2>2. /\ DOMAIN claims' = DOMAIN claims
        /\ \A u \in DOMAIN claims :
              SameIdentity(tbl[u], claims'[u]) /\ claims'[u].state = tbl[u].state
    BY <1>1, <2>1 DEF Heartbeat, SameIdentity, Row
  <2>3. "DONE" \notin EXPIRING_STATES
    BY DEF EXPIRING_STATES, LEASE_STATES
  <2> HIDE DEF tbl
  <2>4. RowsKept
    BY <2>2, <2>3, CleanedShape DEF RowsKept, SameIdentity, tbl
  <2>5. NoNewLease
    BY <2>1, <2>2, CleanedShape DEF NoNewLease, Leased, tbl
  <2> QED BY <2>4, <2>5 DEF StepShape
<1>2. ASSUME NEW t \in Task, NEW outcome \in ReleaseOutcomes, Release(t, outcome)
      PROVE  StepShape
  <2>1. /\ DOMAIN claims' = DOMAIN claims
        /\ \A u \in DOMAIN claims : SameIdentity(claims[u], claims'[u])
        /\ \A u \in DOMAIN claims \ {t} : claims'[u] = claims[u]
        /\ claims'[t].state = outcome
        /\ claims[t].state # "DONE"
    BY <1>2 DEF Release, SameIdentity, Row, TypeOK, TERMINAL_STATES
  <2>2. outcome \notin LEASE_STATES
    BY DEF ReleaseOutcomes, LEASE_STATES
  <2> QED BY <2>1, <2>2 DEF StepShape, RowsKept, NoNewLease, Leased
<1>3. ASSUME NEW lag \in Lag, NEW gone \in SUBSET dead, Cleanup(lag, gone)
      PROVE  StepShape
  BY <1>3, SweptOnly DEF Cleanup, StepShape
<1>4. CASE Tick
  <2>1. /\ DOMAIN claims' = DOMAIN claims
        /\ \A u \in DOMAIN claims :
              SameIdentity(claims[u], claims'[u]) /\ claims'[u].state = claims[u].state
    BY <1>4 DEF Tick, SameIdentity, Row, TypeOK
  <2> QED BY <2>1 DEF StepShape, RowsKept, NoNewLease, Leased
<1>5. CASE claims' = claims
  BY <1>5 DEF StepShape, RowsKept, NoNewLease, SameIdentity
<1> QED BY <1>1, <1>2, <1>3, <1>4, <1>5, ClaimShape, TransitionShape
        DEF Next, Call, Environment, Die, vars

-----------------------------------------------------------------------------
(***************************************************************************)
(* Safety.                                                                 *)
(***************************************************************************)
LEMMA ShapeKeepsDisjoint ==
    ASSUME TypeOK, LeasesDisjoint, StepShape
    PROVE  LeasesDisjoint'
<1> SUFFICES ASSUME NEW t \in DOMAIN claims', NEW u \in DOMAIN claims', t # u,
                    Leased(claims', t), Leased(claims', u),
                    claims'[t].base = claims'[u].base
             PROVE  ~ScopesOverlap(claims'[t].scopes, claims'[u].scopes)
  BY DEF LeasesDisjoint, Leased
<1>1. CASE Leased(claims, t) /\ Leased(claims, u)
  <2>1. SameIdentity(claims[t], claims'[t]) /\ SameIdentity(claims[u], claims'[u])
    BY <1>1 DEF StepShape, RowsKept, Leased
  <2> QED BY <1>1, <2>1 DEF LeasesDisjoint, SameIdentity, Leased
<1>2. CASE \E g \in Task : NewLease(g)
  <2>1. PICK g \in Task : NewLease(g)
    BY <1>2
  <2>2. CASE t = g
    BY <2>1, <2>2 DEF NewLease
  <2>3. CASE u = g
    <3>1. ~ScopesOverlap(claims'[u].scopes, claims'[t].scopes)
      BY <2>1, <2>3 DEF NewLease
    <3> QED BY <3>1, OverlapSymmetric
  <2>4. CASE t # g /\ u # g
    BY <1>1, <2>1, <2>4 DEF NewLease
  <2> QED BY <2>2, <2>3, <2>4
<1>3. CASE NoNewLease
  BY <1>1, <1>3 DEF NoNewLease
<1> QED BY <1>2, <1>3 DEF StepShape

\* No two leases on one commit overlap, for any number of callers with any
\* clocks: the sweep and the conflict query share one transaction.
THEOREM Exclusion == Spec => []LeasesDisjoint
<1>1. Init => LeasesDisjoint
  BY DEF Init, LeasesDisjoint
<1>2. TypeOK /\ LeasesDisjoint /\ [Next]_vars => LeasesDisjoint'
  BY NextShape, ShapeKeepsDisjoint
<1> QED BY <1>1, <1>2, TypeCorrect, PTL DEF Spec

\* No path of the repository is under two leases.
THEOREM SingleWriter == Spec => []OneWriterPerPath
<1>1. TypeOK /\ LeasesDisjoint => OneWriterPerPath
  <2> SUFFICES ASSUME TypeOK, LeasesDisjoint, NEW f \in Path,
                      NEW t \in DOMAIN claims, NEW u \in DOMAIN claims,
                      Leased(claims, t), Covers(claims[t].scopes, f),
                      Leased(claims, u), Covers(claims[u].scopes, f),
                      claims[t].base = claims[u].base, t # u
               PROVE  FALSE
    BY DEF OneWriterPerPath
  <2>1. claims[t].scopes \in SUBSET Scope /\ claims[u].scopes \in SUBSET Scope
    <3>1. claims[t] \in Row /\ claims[u] \in Row
      BY DEF TypeOK
    <3>2. claims[t].scopes \in ScopeSet /\ claims[u].scopes \in ScopeSet
      BY <3>1 DEF Row
    <3> QED BY <3>2, ClaimsAssumption
  <2>2. ScopesOverlap(claims[t].scopes, claims[u].scopes)
    BY <2>1, SharedPathOverlaps, ClaimsAssumption
  <2> QED BY <2>2 DEF LeasesDisjoint
<1> QED BY <1>1, TypeCorrect, Exclusion, PTL

\* A row keeps its repository, commit, scopes and owner for ever.
THEOREM IdentityNeverChanges == Spec => IdentityFixed
<1>1. TypeOK /\ [Next]_vars =>
        [\A t \in DOMAIN claims :
            /\ t \in DOMAIN claims'
            /\ claims'[t].base = claims[t].base
            /\ claims'[t].scopes = claims[t].scopes
            /\ claims'[t].owner = claims[t].owner]_vars
  BY NextShape DEF StepShape, RowsKept, SameIdentity
<1> QED BY <1>1, TypeCorrect, PTL DEF Spec, IdentityFixed

\* Whoever loses a lease in the step has let it expire, or died.
LostExpired ==
    \A t \in DOMAIN claims :
        Leased(claims, t) /\ ~Leased(claims', t) => claims[t].left <= 0

\* A call that grants takes leases away by its own sweep only.
LEMMA SweepTakesExpired ==
    ASSUME TypeOK, NEW lag \in Lag, NEW t \in DOMAIN claims,
           Leased(claims, t), ~Leased(Cleaned(lag, {}), t)
    PROVE  claims[t].left <= 0
<1>1. claims[t].left \in Int /\ lag \in Nat
  BY ClaimsAssumption DEF TypeOK, Row, Lag
<1>2. Stale(claims[t], lag, {})
  BY DEF Leased, Cleaned, CleanedRow
<1> QED BY <1>1, <1>2 DEF Stale

\* A step either grants no lease, or takes none that has not expired.
LEMMA GrantTakesExpired ==
    ASSUME TypeOK, [Next]_vars
    PROVE  NoNewLease \/ LostExpired
<1> SUFFICES ASSUME ~NoNewLease, NEW u \in DOMAIN claims,
                    Leased(claims, u), ~Leased(claims', u)
             PROVE  claims[u].left <= 0
  BY DEF LostExpired
<1>1. ASSUME NEW t \in Task, NEW lag \in Lag, NEW req \in Request, Claim(t, req, lag)
      PROVE  claims[u].left <= 0
  <2> PICK tbl : tbl = Cleaned(lag, {})
    OBVIOUS
  <2>1. /\ DOMAIN tbl = DOMAIN claims
        /\ \A v \in DOMAIN claims : Leased(tbl, v) => Leased(claims, v)
    BY CleanedType, CleanedShape
  <2>2. claims' # tbl
    BY <2>1 DEF NoNewLease, Leased
  <2>3. CASE ClaimRenewed(t, req, lag)
    <3>1. \A v \in DOMAIN claims' : v \in DOMAIN tbl /\ claims'[v].state = tbl[v].state
      BY <2>1, <2>3, CleanedType DEF ClaimRenewed, Row
    <3> QED BY <2>1, <3>1 DEF NoNewLease, Leased
  <2>4. CASE ClaimQueued(t, req, lag) \/ ClaimGranted(t, req, lag)
    <3>1. /\ ~Leased(tbl, t)
          /\ \E s \in {"QUEUED", "CLAIMED"} : claims' = Put(tbl, t, NewRow(req, s, lag))
      BY <2>4 DEF ClaimQueued, ClaimGranted
    <3>2. u # t => ~Leased(tbl, u)
      BY <2>1, <3>1 DEF Put, Leased
    <3> QED BY <3>1, <3>2, SweepTakesExpired
  <2> QED BY <1>1, <2>2, <2>3, <2>4 DEF Claim, ClaimRefused
<1>2. ASSUME NEW t \in Task, NEW lag \in Lag, NEW ttl \in Ttl, NEW target \in STATES,
             Transition(t, target, ttl, lag)
      PROVE  claims[u].left <= 0
  <2> PICK tbl : tbl = Cleaned(lag, {})
    OBVIOUS
  <2>1. /\ tbl \in [DOMAIN claims -> Row]
        /\ \A v \in DOMAIN claims : Leased(tbl, v) => Leased(claims, v)
    BY CleanedType, CleanedShape
  <2>2. /\ DOMAIN claims' = DOMAIN claims
        /\ t \in DOMAIN claims /\ claims'[t].state = target
        /\ \A v \in DOMAIN claims \ {t} : claims'[v] = tbl[v]
    BY <1>2, <2>1 DEF Transition, Row
  <2>3. target \in LEASE_STATES
    BY <2>1, <2>2 DEF NoNewLease, Leased
  <2>4. u # t /\ ~Leased(tbl, u)
    BY <2>1, <2>2, <2>3 DEF Leased
  <2> QED BY <2>4, SweepTakesExpired
<1>3. ASSUME NEW t \in Task, NEW lag \in Lag, NEW ttl \in Ttl, Heartbeat(t, ttl, lag)
      PROVE  FALSE
  <2>1. \A v \in DOMAIN claims' :
           v \in DOMAIN claims /\ claims'[v].state = Cleaned(lag, {})[v].state
    BY <1>3, CleanedType DEF Heartbeat, Row
  <2> QED BY <2>1, CleanedType, CleanedShape DEF NoNewLease, Leased
<1>4. ASSUME NEW t \in Task, NEW outcome \in ReleaseOutcomes, Release(t, outcome)
      PROVE  FALSE
  <2>1. outcome \notin LEASE_STATES
    BY DEF ReleaseOutcomes, LEASE_STATES
  <2> QED BY <1>4, <2>1 DEF Release, NoNewLease, Leased, TypeOK, Row
<1>5. ASSUME NEW lag \in Lag, NEW gone \in SUBSET dead, Cleanup(lag, gone)
      PROVE  FALSE
  BY <1>5, SweptOnly DEF Cleanup
<1>6. CASE Tick
  <2>1. \A v \in DOMAIN claims' : v \in DOMAIN claims /\ claims'[v].state = claims[v].state
    BY <1>6 DEF Tick, TypeOK, Row
  <2> QED BY <2>1 DEF NoNewLease, Leased
<1>7. CASE claims' = claims
  BY <1>7 DEF NoNewLease
<1> QED BY <1>1, <1>2, <1>3, <1>4, <1>5, <1>6, <1>7
        DEF Next, Call, Environment, Die, vars

\* A grant never takes the lease of a living owner before its time, although
\* the sweep of a call uses a now that may be as old as its wait for the lock:
\* a late clock sees rows expire later, never earlier.
THEOREM NeverPreempted == Spec => NoPreemption
<1>1. TypeOK /\ [Next]_vars =>
        [\A t \in DOMAIN claims :
            (Leased(claims, t) /\ ~Leased(claims', t)) =>
               \/ claims[t].left <= 0
               \/ claims[t].pid \in dead
               \/ \A u \in DOMAIN claims' : Leased(claims', u) => Leased(claims, u)]_vars
  BY GrantTakesExpired DEF NoNewLease, LostExpired
<1> QED BY <1>1, TypeCorrect, PTL DEF Spec, NoPreemption

-----------------------------------------------------------------------------
(***************************************************************************)
(* Refinement.  A call maps to Drop, or to Reassign when it may grant.     *)
(***************************************************************************)
AreaOf(tbl, t) ==
    IF Leased(tbl, t)
    THEN [base |-> tbl[t].base, scopes |-> tbl[t].scopes]
    ELSE NoArea

LEMMA AreaType ==
    ASSUME TypeOK, NEW t, Leased(claims, t)
    PROVE  AreaOf(claims, t) \in Lease!Area /\ AreaOf(claims, t) # NoArea
<1>1. claims[t] \in Row
  BY DEF TypeOK, Leased
<1>2. AreaOf(claims, t) = [base |-> claims[t].base, scopes |-> claims[t].scopes]
  BY DEF AreaOf
<1>3. AreaOf(claims, t) \in [base : Base, scopes : ScopeSet]
  BY <1>1, <1>2 DEF Row
<1> QED BY <1>3, ClaimsAssumption DEF Lease!Area

\* A step without a new lease drops some leases.
LEMMA DropStep ==
    ASSUME TypeOK, TypeOK', StepShape, NoNewLease
    PROVE  Lease!Next
<1> PICK dropped \in SUBSET Task :
           dropped = {t \in Task : Leased(claims, t) => ~Leased(claims', t)}
  OBVIOUS
<1>1. [t \in Task |-> AreaOf(claims', t)]
        = [t \in Task |-> IF t \in dropped THEN NoArea
                          ELSE [u \in Task |-> AreaOf(claims, u)][t]]
  <2> SUFFICES ASSUME NEW t \in Task
               PROVE  AreaOf(claims', t)
                        = IF t \in dropped THEN NoArea ELSE AreaOf(claims, t)
    OBVIOUS
  <2>1. CASE Leased(claims', t)
    <3>1. Leased(claims, t)
      BY <2>1 DEF NoNewLease, Leased
    <3> QED BY <2>1, <3>1 DEF AreaOf, StepShape, RowsKept, SameIdentity, Leased
  <2>2. CASE ~Leased(claims', t)
    BY <2>2 DEF AreaOf
  <2> QED BY <2>1, <2>2
<1>2. DoneTasks \subseteq DoneTasks'
  BY DEF StepShape, RowsKept, DoneTasks
<1>3. DoneTasks' \subseteq DoneTasks \cup dropped
  <2> SUFFICES ASSUME NEW t \in DOMAIN claims', claims'[t].state = "DONE"
               PROVE  t \in dropped
    BY DEF DoneTasks
  <2>1. ~Leased(claims', t)
    BY DEF LEASE_STATES, Leased
  <2>2. t \in Task
    BY DEF TypeOK
  <2> QED BY <2>1, <2>2
<1>4. Lease!Drop(dropped)
  BY <1>1, <1>2, <1>3 DEF Lease!Drop, AreaOf, DoneTasks
<1> QED BY <1>4 DEF Lease!Next

\* A step with a new lease hands one area out and drops some leases.
LEMMA ReassignStep ==
    ASSUME TypeOK, TypeOK', StepShape, NEW g \in Task, NewLease(g)
    PROVE  Lease!Next
<1> PICK dropped \in SUBSET Task :
           dropped = {t \in Task : Leased(claims, t) => ~Leased(claims', t)}
  OBVIOUS
<1>0. PICK area : area = AreaOf(claims', g)
  OBVIOUS
<1> DEFINE kept == [t \in Task |-> IF t \in dropped THEN NoArea
                            ELSE [u \in Task |-> AreaOf(claims, u)][t]]
<1> USE <1>0
<1>1. area \in Lease!Area /\ area = [base |-> claims'[g].base, scopes |-> claims'[g].scopes]
  <2>1. claims'[g] \in Row
    BY DEF NewLease, TypeOK, Leased
  <2>2. area = [base |-> claims'[g].base, scopes |-> claims'[g].scopes]
    BY DEF NewLease, AreaOf
  <2>3. area \in [base : Base, scopes : ScopeSet]
    BY <2>1, <2>2 DEF Row
  <2> QED BY <2>2, <2>3 DEF Lease!Area
<1>2. g \notin DoneTasks
  BY DEF NewLease, DoneTasks, TERMINAL_STATES
<1>3. \A t \in Task \ {g} : kept[t] = AreaOf(claims', t)
  <2> SUFFICES ASSUME NEW t \in Task \ {g}
               PROVE  (IF t \in dropped THEN NoArea ELSE AreaOf(claims, t))
                        = AreaOf(claims', t)
    OBVIOUS
  <2>1. CASE Leased(claims', t)
    <3>1. Leased(claims, t)
      BY <2>1 DEF NewLease, Leased
    <3> QED BY <2>1, <3>1 DEF AreaOf, StepShape, RowsKept, SameIdentity, Leased
  <2>2. CASE ~Leased(claims', t)
    BY <2>2 DEF AreaOf
  <2> QED BY <2>1, <2>2
<1>4. \A t \in Task \ {g} : kept[t] # NoArea => ~Lease!AreasOverlap(area, kept[t])
  <2> SUFFICES ASSUME NEW t \in Task \ {g}, kept[t] # NoArea
               PROVE  ~Lease!AreasOverlap(area, kept[t])
    OBVIOUS
  <2>1. kept[t] = AreaOf(claims', t)
    BY <1>3
  <2> HIDE DEF kept
  <2>2. Leased(claims', t) /\ kept[t] = [base |-> claims'[t].base, scopes |-> claims'[t].scopes]
    BY <2>1 DEF AreaOf
  <2>3. claims'[t].base = claims'[g].base
           => ~ScopesOverlap(claims'[g].scopes, claims'[t].scopes)
    BY <2>2 DEF NewLease, Leased
  <2> QED BY <1>1, <2>2, <2>3
          DEF Lease!AreasOverlap, Lease!ScopesOverlap, ScopesOverlap,
              Lease!Contains, Contains
<1>5. [t \in Task |-> AreaOf(claims', t)] = [kept EXCEPT ![g] = area]
  BY <1>3
<1>6. Lease!Reassign(dropped, g, area)
  BY <1>2, <1>4, <1>5 DEF Lease!Reassign, AreaOf, DoneTasks, NewLease
<1> QED BY <1>1, <1>6 DEF Lease!Next

\* The table of claims implements the exclusive path lease, for every set of
\* tasks, scopes and clocks.
THEOREM Refinement == Spec => ImplementsPathLease
<1>1. Init => Lease!Init
  BY DEF Init, Lease!Init, Leased
<1>2. TypeOK /\ TypeOK' /\ [Next]_vars => [Lease!Next]_(Lease!vars)
  <2>1. ASSUME TypeOK, TypeOK', [Next]_vars
        PROVE  Lease!Next
    BY <2>1, NextShape, DropStep, ReassignStep DEF StepShape
  <2> QED BY <2>1
<1> QED BY <1>1, <1>2, TypeCorrect, PTL DEF Spec, ImplementsPathLease, Lease!Spec
================================================================================
