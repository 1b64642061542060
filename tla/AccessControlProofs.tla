------------------------- MODULE AccessControlProofs --------------------------
(***************************************************************************)
(* Proofs about AccessControl: types, the age of what a cache answers, an  *)
(* edit that leaves the user where he is, and an honest snapshot, for any  *)
(* number of workspaces, roles and workers.                                *)
(***************************************************************************)
EXTENDS AccessControl, TLAPS

USE ConstantsAssumption

LEMMA NoRowDiffers ==
    NoRow \notin Tenants /\ NoRow \notin Roles /\ NoRow \notin Memberships
    /\ NoRow \notin Profiles /\ NoRow \notin Plans /\ NoRow \notin Entries
BY NoRowAssumption

USE NoRowDiffers

\* The types of what one call keeps, and of the rest of the state.
CallType ==
    /\ pc \in [Workers -> States]
    /\ want \in [Workers -> Tenants \cup {NoRow}]
    /\ \A w \in Workers : pc[w] # "idle" /\ pc[w] # "deriving" => want[w] # NoRow
    /\ switch \in [Workers -> BOOLEAN]
    /\ plan \in [Workers -> Plans \cup {NoRow}]
    /\ \A w \in Workers : pc[w] \in {"writing", "rewriting"} => plan[w] # NoRow
    /\ role \in [Workers -> Roles \cup {NoRow}]
    /\ \A w \in Workers : pc[w] = "patching" => role[w] # NoRow

LoadType ==
    /\ loaded \in [Workers -> Entries \cup {NoRow}]
    /\ \A w \in Workers : pc[w] = "merging" => loaded[w] # NoRow

RowType ==
    /\ member \in [Tenants -> Memberships \cup {NoRow}]
    /\ profile \in Profiles

RestType ==
    /\ disturbed \in [Workers -> BOOLEAN]
    /\ tainted \subseteq {"unjoined", "late", "ended", "reopened"}
    /\ changes \in 0..MaxChanges
    /\ failures \in 0..MaxFailures

CacheType == cache \in [Workers -> Entries \cup {NoRow}]

LEMMA TypeSplit ==
    TypeOK <=> CallType /\ LoadType /\ RowType /\ RestType /\ CacheType
BY DEF TypeOK, CallType, LoadType, RowType, RestType, CacheType

LEMMA TypeInit ==
    ASSUME Init
    PROVE  TypeOK
<1>1. CallType /\ LoadType /\ CacheType
  BY DEF Init, CallType, LoadType, CacheType, States
<1>2. RestType
  BY DEF Init, RestType
<1>3. member \in [Tenants -> Memberships \cup {NoRow}]
  BY DEF Init, Memberships
<1>4. profile \in Profiles
  BY DEF Init
<1>5. QED
  BY <1>1, <1>2, <1>3, <1>4, TypeSplit DEF RowType

\* A call that goes on, about tenant t from now on.
LEMMA MoveType ==
    ASSUME CallType, NEW w \in Workers, NEW t \in Tenants,
           NEW to \in States \ {"writing", "rewriting"}, Goto(w, to),
           want' = [want EXCEPT ![w] = t],
           switch' \in [Workers -> BOOLEAN], plan' = plan,
           role' \in [Workers -> Roles \cup {NoRow}],
           \A k \in Workers : k # w => role'[k] = role[k],
           to = "patching" => role'[w] # NoRow
    PROVE  CallType'
<1>1. pc' \in [Workers -> States] /\ want' \in [Workers -> Tenants \cup {NoRow}]
  BY DEF CallType, Goto
<1>2. ASSUME NEW k \in Workers
      PROVE  /\ pc'[k] # "idle" /\ pc'[k] # "deriving" => want'[k] # NoRow
             /\ pc'[k] \in {"writing", "rewriting"} => plan'[k] # NoRow
             /\ pc'[k] = "patching" => role'[k] # NoRow
  <2>1. CASE k = w
    <3>1. pc'[k] = to /\ want'[k] = t
      BY <2>1 DEF CallType, Goto
    <3>2. QED
      BY <2>1, <3>1
  <2>2. CASE k # w
    <3>1. pc'[k] = pc[k] /\ want'[k] = want[k] /\ role'[k] = role[k]
      BY <2>2 DEF CallType, Goto
    <3>2. QED
      BY <3>1 DEF CallType
  <2>3. QED
    BY <2>1, <2>2
<1>3. QED
  BY <1>1, <1>2 DEF CallType

\* The end of a call.
LEMMA DoneType ==
    ASSUME CallType, LoadType, NEW w \in Workers, Done(w)
    PROVE  CallType' /\ LoadType'
<1>1. CallType'
  BY DEF CallType, Done, Goto, States
<1>2. LoadType'
  BY DEF CallType, LoadType, Done, Goto
<1>3. QED
  BY <1>1, <1>2

LEMMA DisturbType ==
    ASSUME RestType, NEW w \in Workers, Disturb(w)
    PROVE  disturbed' \in [Workers -> BOOLEAN]
BY DEF RestType, Disturb

\* What a tick makes of an entry.
LEMMA AgedType ==
    ASSUME NEW e \in Entries
    PROVE  /\ Aged(e) \in Entries
           /\ Aged(e).left = e.left
           /\ Aged(e).lag = e.lag
           /\ Aged(e).old <= e.old + 1
BY DEF Aged, Entries

LEMMA KeptType ==
    ASSUME NEW e \in Entries \cup {NoRow}
    PROVE  /\ Kept(e) \in Entries \cup {NoRow}
           /\ Kept(e) # NoRow => /\ e \in Entries
                                 /\ Kept(e).left = e.left - 1
                                 /\ Kept(e).lag = e.lag
                                 /\ Kept(e).old <= e.old + 1
<1>1. CASE e = NoRow \/ e.left = 1
  BY <1>1 DEF Kept
<1>2. CASE e # NoRow /\ e.left # 1
  <2>1. e \in Entries /\ e.left \in 1..TTL /\ e.left - 1 \in 1..TTL
    BY <1>2 DEF Entries
  <2>2. Kept(e) = [Aged(e) EXCEPT !.left = e.left - 1]
    BY <1>2, <2>1, AgedType DEF Kept
  <2>3. QED
    BY <2>1, <2>2, AgedType DEF Entries
<1>3. QED
  BY <1>1, <1>2

LEMMA SlowedType ==
    ASSUME NEW e \in Entries \cup {NoRow}, e # NoRow => e.lag < MaxLag
    PROVE  /\ Slowed(e) \in Entries \cup {NoRow}
           /\ e # NoRow => Slowed(e) # NoRow
           /\ Slowed(e) # NoRow => /\ e \in Entries
                                   /\ Slowed(e).left = e.left
                                   /\ Slowed(e).lag = e.lag + 1
                                   /\ Slowed(e).old <= e.old + 1
<1>1. CASE e = NoRow
  BY <1>1 DEF Slowed
<1>2. CASE e # NoRow
  <2>1. e \in Entries /\ e.lag + 1 \in 0..MaxLag
    BY <1>2 DEF Entries
  <2>2. Slowed(e) = [Aged(e) EXCEPT !.lag = e.lag + 1]
    BY <1>2, <2>1, AgedType DEF Slowed
  <2>3. Slowed(e) \in Entries
    BY <2>1, <2>2, AgedType DEF Entries
  <2>4. QED
    BY <2>1, <2>2, <2>3, AgedType DEF Entries
<1>3. QED
  BY <1>1, <1>2

LEMMA TypeStep ==
    ASSUME TypeOK, [Next]_vars
    PROVE  TypeOK'
<1> SUFFICES ASSUME CallType, LoadType, RowType, RestType, CacheType
             PROVE  CallType' /\ LoadType' /\ RowType' /\ RestType' /\ CacheType'
  BY DEF TypeOK, CallType, LoadType, RowType, RestType, CacheType
<1> USE DEF rows, local, bound
<1>1. ASSUME NEW w \in Workers, NEW t \in Tenants, NEW s \in BOOLEAN, Ask(w, t, s)
      PROVE  CallType' /\ LoadType' /\ RowType' /\ RestType' /\ CacheType'
  <2>1. CASE Goto(w, "loading")
    <3>1. CallType'
      BY <1>1, <2>1, MoveType DEF Ask, CallType, States
    <3>2. LoadType'
      BY <1>1, <2>1 DEF Ask, CallType, LoadType, Goto
    <3>3. QED
      BY <1>1, <3>1, <3>2 DEF Ask, RowType, RestType, CacheType
  <2>2. CASE Goto(w, "checking")
    <3>1. CallType'
      BY <1>1, <2>2, MoveType DEF Ask, CallType, States
    <3>2. LoadType'
      BY <1>1, <2>2 DEF Ask, CallType, LoadType, Goto
    <3>3. QED
      BY <1>1, <3>1, <3>2 DEF Ask, RowType, RestType, CacheType
  <2>3. QED
    BY <1>1, <2>1, <2>2 DEF Ask
<1>2. ASSUME NEW w \in Workers, LoadProfile(w)
      PROVE  CallType' /\ LoadType' /\ RowType' /\ RestType' /\ CacheType'
  <2>1. CallType'
    BY <1>2 DEF LoadProfile, CallType, Goto, States
  <2>2. [row |-> profile, left |-> TTL, lag |-> 0, old |-> 0] \in Entries
    BY DEF RowType, Entries
  <2>3. LoadType'
    BY <1>2, <2>2 DEF LoadProfile, CallType, LoadType, Goto
  <2>4. QED
    BY <1>2, <2>1, <2>3 DEF LoadProfile, RowType, RestType, CacheType
<1>3. ASSUME NEW w \in Workers, PutProfile(w)
      PROVE  CallType' /\ LoadType' /\ RowType' /\ RestType' /\ CacheType'
  <2>1. CASE Done(w)
    BY <1>3, <2>1, DoneType DEF PutProfile, LoadType, RowType, RestType, CacheType
  <2>2. CASE ~Done(w)
    <3>1. CallType'
      BY <1>3, <2>2 DEF PutProfile, CallType, Goto, States
    <3>2. LoadType'
      BY <1>3, <2>2 DEF PutProfile, CallType, LoadType, Goto
    <3>3. QED
      BY <1>3, <3>1, <3>2 DEF PutProfile, LoadType, RowType, RestType, CacheType
  <2>3. QED
    BY <2>1, <2>2
<1>4. ASSUME NEW w \in Workers, Validate(w)
      PROVE  CallType' /\ LoadType' /\ RowType' /\ RestType' /\ CacheType'
  <2>1. CASE Done(w)
    BY <1>4, <2>1, DoneType DEF Validate, RowType, RestType, CacheType
  <2>2. CASE ~Done(w)
    <3>1. want[w] \in Tenants /\ member[want[w]] \in Memberships
      BY <1>4, <2>2 DEF Validate, CallType, RowType, Joined
    <3>2. [tenant |-> want[w], role |-> member[want[w]].role] \in Plans
      BY <3>1 DEF Plans, Memberships
    <3>3. CallType'
      BY <1>4, <2>2, <3>2 DEF Validate, CallType, Goto, States
    <3>4. LoadType'
      BY <1>4, <2>2 DEF Validate, CallType, LoadType, Goto
    <3>5. QED
      BY <1>4, <3>3, <3>4 DEF Validate, RowType, RestType, CacheType
  <2>3. QED
    BY <2>1, <2>2
<1>5. ASSUME NEW w \in Workers, WriteSnapshot(w)
      PROVE  CallType' /\ LoadType' /\ RowType' /\ RestType' /\ CacheType'
  <2>1. CallType' /\ LoadType'
    BY <1>5, DoneType DEF WriteSnapshot
  <2>2. plan[w] \in Plans
    BY <1>5 DEF WriteSnapshot, CallType
  <2>3. RowType'
    BY <1>5, <2>2 DEF WriteSnapshot, RowType, Plans, Profiles
  <2>4. RestType' /\ CacheType'
    BY <1>5, DisturbType DEF WriteSnapshot, Invalidate, RestType, CacheType
  <2>5. QED
    BY <2>1, <2>3, <2>4
<1>6. ASSUME NEW w \in Workers, NEW t \in Tenants, NEW r \in Roles,
             AddMembership(w, t, r)
      PROVE  CallType' /\ LoadType' /\ RowType' /\ RestType' /\ CacheType'
  <2>1. CallType' /\ LoadType'
    BY <1>6 DEF AddMembership, CallType, LoadType
  <2>2. RowType'
    BY <1>6 DEF AddMembership, RowType, Memberships
  <2>3. RestType' /\ CacheType'
    BY <1>6, DisturbType DEF AddMembership, Invalidate, Changing, RestType, CacheType
  <2>4. QED
    BY <2>1, <2>2, <2>3
<1>7. ASSUME NEW w \in Workers, NEW t \in Tenants, NEW m \in Memberships \cup {NoRow},
             EditMembership(w, t, m)
      PROVE  CallType' /\ LoadType' /\ RowType' /\ RestType' /\ CacheType'
  <2>1. CallType' /\ LoadType'
    BY <1>7 DEF EditMembership, CallType, LoadType, Goto, States
  <2>2. RowType'
    BY <1>7 DEF EditMembership, RowType
  <2>3. RestType' /\ CacheType'
    BY <1>7, DisturbType DEF EditMembership, Changing, RestType, CacheType
  <2>4. QED
    BY <2>1, <2>2, <2>3
<1>8. ASSUME NEW w \in Workers, ReadSnapshot(w)
      PROVE  CallType' /\ LoadType' /\ RowType' /\ RestType' /\ CacheType'
  <2>1. profile.tenant \in Tenants
    BY DEF RowType, Profiles
  <2>2. CallType'
    BY <1>8, <2>1, MoveType DEF ReadSnapshot, CallType, States
  <2>3. LoadType'
    BY <1>8 DEF ReadSnapshot, CallType, LoadType, Goto
  <2>4. QED
    BY <1>8, <2>2, <2>3 DEF ReadSnapshot, RowType, RestType, CacheType
<1>9. ASSUME NEW w \in Workers, MatchMembership(w)
      PROVE  CallType' /\ LoadType' /\ RowType' /\ RestType' /\ CacheType'
  <2>1. want[w] \in Tenants
    BY <1>9 DEF MatchMembership, CallType
  <2>2. ASSUME NEW t \in Candidates(w)
        PROVE  [tenant |-> t, role |-> member[t].role] \in Plans
    <3>1. t \in Tenants /\ member[t] \in Memberships
      BY <2>1, <2>2 DEF Candidates, Joined, RowType
    <3>2. QED
      BY <3>1 DEF Plans, Memberships
  <2>3. CASE \E t \in Candidates(w) :
               /\ Goto(w, "rewriting")
               /\ plan' = [plan EXCEPT
                             ![w] = [tenant |-> t, role |-> member[t].role]]
    <3>1. CallType'
      BY <1>9, <2>2, <2>3 DEF MatchMembership, CallType, Goto, States
    <3>2. LoadType'
      BY <1>9, <2>3 DEF MatchMembership, CallType, LoadType, Goto
    <3>3. QED
      BY <1>9, <3>1, <3>2 DEF MatchMembership, RowType, RestType, CacheType
  <2>4. CASE Goto(w, "closing") /\ UNCHANGED plan
    <3>1. CallType' /\ LoadType'
      BY <1>9, <2>4 DEF MatchMembership, CallType, LoadType, Goto, States
    <3>2. QED
      BY <1>9, <3>1 DEF MatchMembership, RowType, RestType, CacheType
  <2>5. QED
    BY <1>9, <2>3, <2>4 DEF MatchMembership
<1>10. ASSUME NEW w \in Workers, CloseProfile(w)
       PROVE  CallType' /\ LoadType' /\ RowType' /\ RestType' /\ CacheType'
  <2>1. CallType' /\ LoadType'
    BY <1>10, DoneType DEF CloseProfile
  <2>2. RowType'
    BY <1>10 DEF CloseProfile, RowType, Profiles
  <2>3. RestType' /\ CacheType'
    BY <1>10, DisturbType DEF CloseProfile, Invalidate, RestType, CacheType
  <2>4. QED
    BY <2>1, <2>2, <2>3
<1>11. ASSUME NEW w \in Workers, NEW t \in Tenants, NEW r \in Roles, PatchUser(w, t, r)
       PROVE  CallType' /\ LoadType' /\ RowType' /\ RestType' /\ CacheType'
  <2>1. CallType'
    <3>1. role' \in [Workers -> Roles \cup {NoRow}]
      BY <1>11 DEF PatchUser, CallType
    <3>2. role'[w] # NoRow /\ \A k \in Workers : k # w => role'[k] = role[k]
      BY <1>11 DEF PatchUser, CallType
    <3>3. QED
      BY <1>11, <3>1, <3>2, MoveType DEF PatchUser, CallType, States
  <2>2. LoadType'
    BY <1>11 DEF PatchUser, CallType, LoadType, Goto
  <2>3. RowType'
    BY <1>11 DEF PatchUser, RowType, Profiles
  <2>4. RestType' /\ CacheType'
    BY <1>11, DisturbType DEF PatchUser, Changing, RestType, CacheType
  <2>5. QED
    BY <2>1, <2>2, <2>3, <2>4
<1>12. ASSUME NEW w \in Workers, PatchMembership(w)
       PROVE  CallType' /\ LoadType' /\ RowType' /\ RestType' /\ CacheType'
  <2>1. CallType' /\ LoadType'
    BY <1>12, DoneType DEF PatchMembership
  <2>2. want[w] \in Tenants /\ role[w] \in Roles
    BY <1>12 DEF PatchMembership, CallType
  <2>3. RowType'
    <3>1. CASE member[want[w]] = NoRow
      BY <1>12, <3>1 DEF PatchMembership, RowType
    <3>2. CASE member[want[w]] # NoRow
      <4>1. member[want[w]] \in Memberships
        BY <2>2, <3>2 DEF RowType
      <4>2. [member[want[w]] EXCEPT !.role = role[w]] \in Memberships
        BY <2>2, <4>1 DEF Memberships
      <4>3. QED
        BY <1>12, <3>2, <4>2 DEF PatchMembership, RowType
    <3>3. QED
      BY <3>1, <3>2
  <2>4. RestType' /\ CacheType'
    BY <1>12, DisturbType DEF PatchMembership, RestType, CacheType
  <2>5. QED
    BY <2>1, <2>3, <2>4
<1>13. ASSUME NEW w \in Workers, NEW on \in BOOLEAN, SetActive(w, on)
       PROVE  CallType' /\ LoadType' /\ RowType' /\ RestType' /\ CacheType'
  <2>1. CallType' /\ LoadType'
    BY <1>13 DEF SetActive, CallType, LoadType
  <2>2. RowType'
    BY <1>13 DEF SetActive, RowType, Profiles
  <2>3. RestType' /\ CacheType'
    BY <1>13 DEF SetActive, Changing, RestType, CacheType
  <2>4. QED
    BY <2>1, <2>2, <2>3
<1>14. ASSUME NEW w \in Workers, Fail(w)
       PROVE  CallType' /\ LoadType' /\ RowType' /\ RestType' /\ CacheType'
  <2>1. CallType' /\ LoadType'
    BY <1>14, DoneType DEF Fail
  <2>2. RowType' /\ RestType' /\ CacheType'
    BY <1>14 DEF Fail, Failing, RowType, RestType, CacheType
  <2>3. QED
    BY <2>1, <2>2
<1>15. CASE Tick
  <2>1. CallType' /\ RowType' /\ RestType'
    BY <1>15 DEF Tick, CallType, RowType, RestType
  <2>2. ASSUME NEW w \in Workers
        PROVE  /\ Kept(cache[w]) \in Entries \cup {NoRow}
               /\ Slowed(loaded[w]) \in Entries \cup {NoRow}
               /\ loaded[w] # NoRow => Slowed(loaded[w]) # NoRow
    <3>1. cache[w] \in Entries \cup {NoRow} /\ loaded[w] \in Entries \cup {NoRow}
      BY DEF CacheType, LoadType
    <3>2. loaded[w] # NoRow => loaded[w].lag < MaxLag
      BY <1>15 DEF Tick
    <3>3. QED
      BY <3>1, <3>2, KeptType, SlowedType
  <2>3. CacheType' /\ LoadType'
    BY <1>15, <2>2 DEF Tick, CacheType, LoadType
  <2>4. QED
    BY <2>1, <2>3
<1>16. CASE UNCHANGED vars
  BY <1>16 DEF vars, CallType, LoadType, RowType, RestType, CacheType
<1>17. QED
  BY <1>1, <1>2, <1>3, <1>4, <1>5, <1>6, <1>7, <1>8, <1>9, <1>10, <1>11, <1>12,
     <1>13, <1>14, <1>15, <1>16 DEF Next, Request, Edit

\* Every variable keeps its type, and a call holds what its step needs.
THEOREM TypeCorrect == Spec => []TypeOK
<1>1. TypeOK /\ [Next]_vars => TypeOK'
  BY TypeStep
<1>2. QED
  BY TypeInit, <1>1, PTL DEF Spec

-------------------------------------------------------------------------------
(* How old an answer of the cache may be                                   *)

Bounded(e) == e # NoRow => e.old <= TTL - e.left + e.lag

AgesInv ==
    \A w \in Workers : Bounded(cache[w]) /\ Bounded(loaded[w])

LEMMA BoundedKept ==
    ASSUME NEW e \in Entries \cup {NoRow}, Bounded(e)
    PROVE  Bounded(Kept(e))
<1>1. SUFFICES ASSUME Kept(e) # NoRow
               PROVE  Kept(e).old <= TTL - Kept(e).left + Kept(e).lag
  BY DEF Bounded
<1>2. e \in Entries /\ Kept(e) \in Entries
  BY <1>1, KeptType
<1>3. /\ e.old \in Nat /\ e.left \in Nat /\ e.lag \in Nat
      /\ Kept(e).old \in Nat
  BY <1>2 DEF Entries
<1>4. /\ Kept(e).left = e.left - 1
      /\ Kept(e).lag = e.lag
      /\ Kept(e).old <= e.old + 1
  BY <1>1, KeptType
<1>5. e.old <= TTL - e.left + e.lag
  BY <1>2 DEF Bounded
<1>6. QED
  BY <1>3, <1>4, <1>5

LEMMA BoundedSlowed ==
    ASSUME NEW e \in Entries \cup {NoRow}, Bounded(e), e # NoRow => e.lag < MaxLag
    PROVE  Bounded(Slowed(e))
<1>1. SUFFICES ASSUME Slowed(e) # NoRow
               PROVE  Slowed(e).old <= TTL - Slowed(e).left + Slowed(e).lag
  BY DEF Bounded
<1>2. e \in Entries /\ Slowed(e) \in Entries
  BY <1>1, SlowedType
<1>3. /\ e.old \in Nat /\ e.left \in Nat /\ e.lag \in Nat
      /\ Slowed(e).old \in Nat
  BY <1>2 DEF Entries
<1>4. /\ Slowed(e).left = e.left
      /\ Slowed(e).lag = e.lag + 1
      /\ Slowed(e).old <= e.old + 1
  BY <1>1, SlowedType
<1>5. e.old <= TTL - e.left + e.lag
  BY <1>2 DEF Bounded
<1>6. QED
  BY <1>3, <1>4, <1>5

LEMMA AgesStep ==
    ASSUME TypeOK, AgesInv, [Next]_vars
    PROVE  AgesInv'
<1> SUFFICES ASSUME NEW w \in Workers
             PROVE  Bounded(cache'[w]) /\ Bounded(loaded'[w])
  BY DEF AgesInv, Bounded
<1>1. /\ Bounded(cache[w]) /\ Bounded(loaded[w]) /\ Bounded(NoRow)
      /\ cache \in [Workers -> Entries \cup {NoRow}]
      /\ loaded \in [Workers -> Entries \cup {NoRow}]
  BY DEF AgesInv, TypeOK, Bounded
<1>2. CASE Tick
  <2>1. cache'[w] = Kept(cache[w]) /\ loaded'[w] = Slowed(loaded[w])
    BY <1>2 DEF Tick
  <2>2. loaded[w] # NoRow => loaded[w].lag < MaxLag
    BY <1>2 DEF Tick
  <2>3. QED
    BY <1>1, <2>1, <2>2, BoundedKept, BoundedSlowed
<1>3. CASE \E k \in Workers : LoadProfile(k)
  <2>1. PICK k \in Workers : LoadProfile(k)
    BY <1>3
  <2>2. cache' = cache
    BY <2>1 DEF LoadProfile
  <2>3. loaded'[w] = loaded[w]
        \/ loaded'[w] = [row |-> profile, left |-> TTL, lag |-> 0, old |-> 0]
    BY <1>1, <2>1 DEF LoadProfile
  <2>4. Bounded([row |-> profile, left |-> TTL, lag |-> 0, old |-> 0])
    BY DEF Bounded
  <2>5. QED
    BY <1>1, <2>2, <2>3, <2>4
<1>4. CASE \E k \in Workers : PutProfile(k)
  <2>1. PICK k \in Workers : PutProfile(k)
    BY <1>4
  <2>2. cache'[w] = cache[w] \/ cache'[w] = loaded[w]
    BY <1>1, <2>1 DEF PutProfile
  <2>3. loaded'[w] = loaded[w] \/ loaded'[w] = NoRow
    BY <1>1, <2>1 DEF PutProfile, Done
  <2>4. QED
    BY <1>1, <2>2, <2>3
<1>5. CASE UNCHANGED <<cache, loaded>>
  BY <1>1, <1>5
<1>6. CASE \E k \in Workers : /\ cache' \in {cache, [cache EXCEPT ![k] = NoRow]}
                              /\ \/ loaded' = loaded
                                 \/ loaded' = [loaded EXCEPT ![k] = NoRow]
  <2>1. cache'[w] = cache[w] \/ cache'[w] = NoRow
    BY <1>1, <1>6
  <2>2. loaded'[w] = loaded[w] \/ loaded'[w] = NoRow
    BY <1>1, <1>6
  <2>3. QED
    BY <1>1, <2>1, <2>2
<1>7. ASSUME NEW k \in Workers, Request(k)
      PROVE  \/ LoadProfile(k) \/ PutProfile(k) \/ UNCHANGED <<cache, loaded>>
             \/ /\ cache' \in {cache, [cache EXCEPT ![k] = NoRow]}
                /\ loaded' = loaded \/ loaded' = [loaded EXCEPT ![k] = NoRow]
  BY <1>7 DEF Request, Ask, Validate, WriteSnapshot, Done, Invalidate
<1>8. ASSUME NEW k \in Workers, Edit(k)
      PROVE  /\ cache' \in {cache, [cache EXCEPT ![k] = NoRow]}
             /\ loaded' = loaded \/ loaded' = [loaded EXCEPT ![k] = NoRow]
  BY <1>8 DEF Edit, AddMembership, PatchUser, EditMembership, ReadSnapshot,
     MatchMembership, CloseProfile, PatchMembership, SetActive, Done, Invalidate,
     local
<1>9. ASSUME NEW k \in Workers, Fail(k)
      PROVE  /\ cache' \in {cache, [cache EXCEPT ![k] = NoRow]}
             /\ loaded' = [loaded EXCEPT ![k] = NoRow]
  BY <1>9 DEF Fail, Done
<1>10. UNCHANGED vars => UNCHANGED <<cache, loaded>>
  BY DEF vars, local
<1>11. QED
  BY <1>2, <1>3, <1>4, <1>5, <1>6, <1>7, <1>8, <1>9, <1>10 DEF Next

LEMMA AgesInit ==
    ASSUME Init
    PROVE  AgesInv
BY DEF Init, AgesInv, Bounded

\* auth_cache.py states its TTL as the only real bound on what a revoked user
\* keeps: a process answers from a row replaced at most a TTL ago, plus the
\* time its read took.
THEOREM StaleBoundedHolds == Spec => []StaleBounded
<1>1. AgesInv => StaleBounded
  BY DEF AgesInv, StaleBounded, Bounded
<1>2. TypeOK /\ AgesInv /\ [Next]_vars => AgesInv'
  BY AgesStep
<1>3. QED
  BY AgesInit, TypeCorrect, <1>1, <1>2, PTL DEF Spec

-------------------------------------------------------------------------------
(* An honest snapshot                                                      *)

\* What a worker knows as long as nobody disturbed it: its plan copies an
\* active membership; the tenant it read is still the snapshot's, and its plan
\* stays there if the user is active there; the role it gave is the profile's.
Knows(w) ==
    /\ pc[w] \in {"writing", "rewriting"} =>
         /\ Joined(plan[w].tenant)
         /\ plan[w].role = member[plan[w].tenant].role
    /\ pc[w] = "matching" => want[w] = profile.tenant
    /\ pc[w] = "rewriting" /\ Joined(profile.tenant) =>
         plan[w].tenant = profile.tenant
    /\ pc[w] = "patching" /\ profile.tenant = want[w] => profile.role = role[w]

KnowsInv == \A w \in Workers : disturbed[w] \/ Knows(w)

\* A lone update_user that is between its writes: with the second one done the
\* snapshot will be honest.
PatchInv ==
    \A w \in Workers :
        /\ pc[w] = "patching" /\ ~disturbed[w]
        /\ profile.active /\ tainted = {}
        /\ \A k \in Workers : k # w => pc[k] \notin Mending
        => /\ Joined(profile.tenant)
           /\ profile.tenant # want[w] =>
                profile.role = member[profile.tenant].role

\* Those who held an answer when memberships or snapshot changed know it.
LEMMA DisturbOthers ==
    ASSUME TypeOK, NEW w \in Workers, Disturb(w), NEW k \in Workers, k # w,
           pc'[k] = pc[k]
    PROVE  disturbed'[k] \/ pc'[k] \notin Holding
BY DEF TypeOK, Disturb

LEMMA KnowsNothing ==
    ASSUME NEW k \in Workers, pc'[k] \notin Holding
    PROVE  Knows(k)'
BY DEF Knows, Holding

LEMMA KnowsFrame ==
    ASSUME NEW k \in Workers, disturbed[k] \/ Knows(k),
           pc'[k] = pc[k], disturbed'[k] = disturbed[k], plan'[k] = plan[k],
           want'[k] = want[k], role'[k] = role[k], member' = member,
           profile'.tenant = profile.tenant, profile'.role = profile.role
    PROVE  disturbed'[k] \/ Knows(k)'
BY DEF Knows, Joined

\* What a step of w leaves alone.
LEMMA OthersFrame ==
    ASSUME TypeOK, NEW w \in Workers, Request(w) \/ Edit(w) \/ Fail(w),
           NEW k \in Workers, k # w
    PROVE  pc'[k] = pc[k] /\ plan'[k] = plan[k] /\ want'[k] = want[k]
           /\ role'[k] = role[k]
<1> USE DEF TypeOK, Goto, Done, local
<1>1. CASE Request(w)
  BY <1>1 DEF Request, Ask, LoadProfile, PutProfile, Validate, WriteSnapshot
<1>2. CASE Edit(w)
  <2>1. CASE \E t \in Tenants, r \in Roles :
               AddMembership(w, t, r) \/ PatchUser(w, t, r)
    BY <2>1 DEF AddMembership, PatchUser
  <2>2. CASE \E t \in Tenants, m \in Memberships \cup {NoRow} : EditMembership(w, t, m)
    BY <2>2 DEF EditMembership
  <2>3. CASE ReadSnapshot(w)
    BY <2>3 DEF ReadSnapshot
  <2>4. CASE MatchMembership(w)
    BY <2>4 DEF MatchMembership
  <2>5. CASE CloseProfile(w) \/ PatchMembership(w)
    BY <2>5 DEF CloseProfile, PatchMembership
  <2>6. CASE \E on \in BOOLEAN : SetActive(w, on)
    BY <2>6 DEF SetActive
  <2>7. QED
    BY <1>2, <2>1, <2>2, <2>3, <2>4, <2>5, <2>6 DEF Edit
<1>3. CASE Fail(w)
  BY <1>3 DEF Fail
<1>4. QED
  BY <1>1, <1>2, <1>3

\* The steps that change memberships or snapshot, and those that do not.
Changes(w) ==
    \/ WriteSnapshot(w) \/ CloseProfile(w) \/ PatchMembership(w)
    \/ \E t \in Tenants, r \in Roles : AddMembership(w, t, r) \/ PatchUser(w, t, r)
    \/ \E t \in Tenants, m \in Memberships \cup {NoRow} : EditMembership(w, t, m)

Reads(w) ==
    \/ \E t \in Tenants, s \in BOOLEAN : Ask(w, t, s)
    \/ LoadProfile(w) \/ PutProfile(w) \/ Validate(w)
    \/ ReadSnapshot(w) \/ MatchMembership(w)

LEMMA StepKinds ==
    ASSUME NEW w \in Workers, Request(w) \/ Edit(w)
    PROVE  Changes(w) \/ Reads(w) \/ \E on \in BOOLEAN : SetActive(w, on)
BY DEF Request, Edit, Changes, Reads

LEMMA ChangesDisturb ==
    ASSUME NEW w \in Workers, Changes(w)
    PROVE  Disturb(w)
BY DEF Changes, WriteSnapshot, CloseProfile, PatchMembership, AddMembership,
   PatchUser, EditMembership

LEMMA ReadsFrame ==
    ASSUME NEW w \in Workers, Reads(w)
    PROVE  /\ UNCHANGED <<member, profile, disturbed, tainted>>
           /\ pc[w] \in Mending => pc[w] \in {"deriving", "matching"}
BY DEF Reads, Ask, LoadProfile, PutProfile, Validate, ReadSnapshot,
   MatchMembership, rows, Mending

\* What w itself knows after its step.
LEMMA KnowsOwn ==
    ASSUME TypeOK, NEW w \in Workers, disturbed[w] \/ Knows(w),
           Changes(w) \/ Reads(w)
    PROVE  disturbed'[w] \/ Knows(w)'
<1> USE DEF Goto, Done
<1>1. CASE WriteSnapshot(w) \/ CloseProfile(w) \/ PatchMembership(w)
  <2>1. pc'[w] = "idle"
    BY <1>1 DEF WriteSnapshot, CloseProfile, PatchMembership, TypeOK
  <2>2. QED
    BY <2>1, KnowsNothing DEF Holding
<1>2. CASE \/ \E t \in Tenants, r \in Roles : AddMembership(w, t, r)
           \/ \E t \in Tenants, m \in Memberships \cup {NoRow} :
                EditMembership(w, t, m)
  <2>1. pc'[w] \in {"idle", "deriving"}
    BY <1>2 DEF AddMembership, EditMembership, TypeOK
  <2>2. QED
    BY <2>1, KnowsNothing DEF Holding
<1>3. ASSUME NEW t \in Tenants, NEW r \in Roles, PatchUser(w, t, r)
      PROVE  Knows(w)'
  <2>1. pc'[w] = "patching" /\ role'[w] = r /\ want'[w] = t
    BY <1>3 DEF PatchUser, TypeOK
  <2>2. profile'.tenant = t => profile'.role = r
    BY <1>3 DEF PatchUser, TypeOK, Profiles
  <2>3. QED
    BY <2>1, <2>2 DEF Knows
<1>4. CASE \/ \E t \in Tenants, s \in BOOLEAN : Ask(w, t, s)
           \/ LoadProfile(w) \/ PutProfile(w)
  <2>1. pc'[w] \in {"loading", "checking", "merging", "idle"}
    BY <1>4 DEF Ask, LoadProfile, PutProfile, TypeOK
  <2>2. QED
    BY <2>1, KnowsNothing DEF Holding
<1>5. CASE Validate(w)
  <2>1. CASE Done(w)
    <3>1. pc'[w] = "idle"
      BY <2>1 DEF TypeOK
    <3>2. QED
      BY <3>1, KnowsNothing DEF Holding
  <2>2. CASE ~Done(w)
    <3>1. /\ Joined(want[w])
          /\ pc'[w] = "writing"
          /\ plan'[w] = [tenant |-> want[w], role |-> member[want[w]].role]
          /\ member' = member
      BY <1>5, <2>2 DEF Validate, TypeOK, rows
    <3>2. QED
      BY <3>1 DEF Knows, Joined
  <2>3. QED
    BY <2>1, <2>2
<1>6. CASE ReadSnapshot(w)
  <2>1. pc'[w] = "matching" /\ want'[w] = profile.tenant /\ profile' = profile
    BY <1>6 DEF ReadSnapshot, TypeOK, rows
  <2>2. QED
    BY <2>1 DEF Knows
<1>7. CASE MatchMembership(w)
  <2>1. CASE Goto(w, "closing")
    <3>1. pc'[w] = "closing"
      BY <2>1 DEF TypeOK
    <3>2. QED
      BY <3>1 DEF Knows
  <2>2. CASE ~Goto(w, "closing")
    <3>1. PICK t \in Candidates(w) :
            /\ Goto(w, "rewriting")
            /\ plan' = [plan EXCEPT
                          ![w] = [tenant |-> t, role |-> member[t].role]]
      BY <1>7, <2>2 DEF MatchMembership
    <3>2. /\ pc'[w] = "rewriting"
          /\ plan'[w] = [tenant |-> t, role |-> member[t].role]
          /\ UNCHANGED <<member, profile, disturbed>>
      BY <1>7, <3>1 DEF MatchMembership, TypeOK, rows
    <3>3. Joined(t) /\ (Joined(want[w]) => t = want[w])
      BY <3>1 DEF Candidates
    <3>4. disturbed[w] \/ want[w] = profile.tenant
      BY <1>7 DEF MatchMembership, Knows
    <3>5. QED
      BY <3>2, <3>3, <3>4 DEF Knows, Joined
  <2>3. QED
    BY <2>1, <2>2
<1>8. QED
  BY <1>1, <1>2, <1>3, <1>4, <1>5, <1>6, <1>7 DEF Changes, Reads

LEMMA KnowsStep ==
    ASSUME TypeOK, KnowsInv, [Next]_vars
    PROVE  KnowsInv'
<1> SUFFICES ASSUME NEW k \in Workers
             PROVE  disturbed'[k] \/ Knows(k)'
  BY DEF KnowsInv
<1>1. disturbed[k] \/ Knows(k)
  BY DEF KnowsInv
<1>2. ASSUME NEW w \in Workers, Changes(w), Request(w) \/ Edit(w)
      PROVE  disturbed'[k] \/ Knows(k)'
  <2>1. CASE k = w
    BY <1>1, <1>2, <2>1, KnowsOwn
  <2>2. CASE k # w
    <3>1. pc'[k] = pc[k]
      BY <1>2, <2>2, OthersFrame
    <3>2. QED
      BY <1>2, <2>2, <3>1, ChangesDisturb, DisturbOthers, KnowsNothing
  <2>3. QED
    BY <2>1, <2>2
<1>3. ASSUME NEW w \in Workers, Reads(w), Request(w) \/ Edit(w)
      PROVE  disturbed'[k] \/ Knows(k)'
  <2>1. CASE k = w
    BY <1>1, <1>3, <2>1, KnowsOwn
  <2>2. CASE k # w
    <3>1. /\ pc'[k] = pc[k] /\ plan'[k] = plan[k] /\ want'[k] = want[k]
          /\ role'[k] = role[k]
      BY <1>3, <2>2, OthersFrame
    <3>2. QED
      BY <1>1, <1>3, <3>1, ReadsFrame, KnowsFrame
  <2>3. QED
    BY <2>1, <2>2
<1>4. ASSUME NEW w \in Workers, NEW on \in BOOLEAN, SetActive(w, on)
      PROVE  disturbed'[k] \/ Knows(k)'
  <2>1. profile'.tenant = profile.tenant /\ profile'.role = profile.role
    BY <1>4 DEF SetActive, TypeOK, Profiles
  <2>2. QED
    BY <1>1, <1>4, <2>1, KnowsFrame DEF SetActive, local
<1>5. ASSUME NEW w \in Workers, Fail(w)
      PROVE  disturbed'[k] \/ Knows(k)'
  <2>1. CASE k = w
    <3>1. pc'[k] = "idle"
      BY <1>5, <2>1 DEF Fail, Done, Goto, TypeOK
    <3>2. QED
      BY <3>1, KnowsNothing DEF Holding
  <2>2. CASE k # w
    <3>1. /\ pc'[k] = pc[k] /\ plan'[k] = plan[k] /\ want'[k] = want[k]
          /\ role'[k] = role[k]
      BY <1>5, <2>2, OthersFrame
    <3>2. disturbed'[k] = disturbed[k] /\ UNCHANGED <<member, profile>>
      BY <1>5, <2>2 DEF Fail, rows, TypeOK
    <3>3. QED
      BY <1>1, <3>1, <3>2, KnowsFrame
  <2>3. QED
    BY <2>1, <2>2
<1>6. CASE Tick \/ UNCHANGED vars
  BY <1>1, <1>6, KnowsFrame DEF Tick, vars, rows, local
<1>7. QED
  BY <1>2, <1>3, <1>4, <1>5, <1>6, StepKinds DEF Next

\* PatchInv is kept: a change of memberships or snapshot disturbs whoever is
\* between the writes of update_user, and a repair that ends leaves its mark.
LEMMA PatchStep ==
    ASSUME TypeOK, KnowsInv, PatchInv, SnapshotHonest, [Next]_vars
    PROVE  PatchInv'
<1> SUFFICES ASSUME NEW k \in Workers, pc'[k] = "patching", ~disturbed'[k],
                    profile'.active, tainted' = {},
                    \A j \in Workers : j # k => pc'[j] \notin Mending
             PROVE  /\ Joined(profile.tenant)'
                    /\ profile'.tenant # want'[k] =>
                         profile'.role = member'[profile'.tenant].role
  BY DEF PatchInv, Joined
<1> DEFINE Held == /\ Joined(profile.tenant)
                   /\ profile.tenant # want[k] =>
                        profile.role = member[profile.tenant].role
<1>1. ASSUME pc[k] = "patching", ~disturbed[k], profile.active, tainted = {},
             \A j \in Workers : j # k => pc[j] \notin Mending
      PROVE  Held
  BY <1>1 DEF PatchInv
<1>2. ASSUME NEW w \in Workers, Changes(w), Request(w) \/ Edit(w), w # k
      PROVE  FALSE
  <2>1. pc'[k] = pc[k]
    BY <1>2, OthersFrame
  <2>2. QED
    BY <1>2, <2>1, ChangesDisturb, DisturbOthers DEF Holding
<1>3. ASSUME Changes(k)
      PROVE  Joined(profile.tenant)' /\ (profile'.tenant # want'[k] =>
                 profile'.role = member'[profile'.tenant].role)
  <2>1. CASE \E t \in Tenants, r \in Roles : PatchUser(k, t, r)
    <3>1. PICK t \in Tenants, r \in Roles : PatchUser(k, t, r)
      BY <2>1
    <3>2. /\ pc[k] = "idle" /\ want'[k] = t /\ member' = member
          /\ tainted' = tainted /\ profile'.active = profile.active
          /\ profile'.tenant = profile.tenant
          /\ profile.tenant # t => profile'.role = profile.role
      BY <3>1 DEF PatchUser, TypeOK, Profiles
    <3>3. ASSUME NEW j \in Workers
          PROVE  pc[j] \notin Mending
      <4>1. CASE j = k
        BY <3>2, <4>1 DEF Mending
      <4>2. CASE j # k
        BY <3>1, <4>2 DEF PatchUser, Goto, TypeOK
      <4>3. QED
        BY <4>1, <4>2
    <3>4. Backed
      BY <3>2, <3>3 DEF SnapshotHonest
    <3>5. QED
      BY <3>2, <3>4 DEF Backed, Joined
  <2>2. CASE WriteSnapshot(k) \/ CloseProfile(k) \/ PatchMembership(k)
    <3>1. pc'[k] = "idle"
      BY <2>2 DEF WriteSnapshot, CloseProfile, PatchMembership, Done, Goto, TypeOK
    <3>2. QED
      BY <3>1
  <2>3. CASE \/ \E t \in Tenants, r \in Roles : AddMembership(k, t, r)
             \/ \E t \in Tenants, m \in Memberships \cup {NoRow} :
                  EditMembership(k, t, m)
    <3>1. pc'[k] \in {"idle", "deriving"}
      BY <2>3 DEF AddMembership, EditMembership, Goto, TypeOK
    <3>2. QED
      BY <3>1
  <2>4. QED
    BY <1>3, <2>1, <2>2, <2>3 DEF Changes
<1>4. ASSUME NEW w \in Workers, Reads(w), Request(w) \/ Edit(w)
      PROVE  Joined(profile.tenant)' /\ (profile'.tenant # want'[k] =>
                 profile'.role = member'[profile'.tenant].role)
  <2>1. w # k
    BY <1>4 DEF Reads, Ask, LoadProfile, PutProfile, Validate, ReadSnapshot,
       MatchMembership, Done, Goto, TypeOK
  <2>2. UNCHANGED <<member, profile, disturbed, tainted>>
    BY <1>4, ReadsFrame
  <2>3. pc'[k] = pc[k] /\ want'[k] = want[k]
    BY <1>4, <2>1, OthersFrame
  <2>4. pc[w] \notin Mending
    <3>1. CASE ReadSnapshot(w)
      <4>1. pc'[w] = "matching"
        BY <3>1 DEF ReadSnapshot, Goto, TypeOK
      <4>2. QED
        BY <2>1, <4>1 DEF Mending
    <3>2. CASE MatchMembership(w)
      <4>1. pc'[w] \in {"rewriting", "closing"}
        BY <3>2 DEF MatchMembership, Goto, TypeOK
      <4>2. QED
        BY <2>1, <4>1 DEF Mending
    <3>3. CASE ~ReadSnapshot(w) /\ ~MatchMembership(w)
      BY <1>4, <3>3 DEF Reads, Ask, LoadProfile, PutProfile, Validate, Mending
    <3>4. QED
      BY <3>1, <3>2, <3>3
  <2>5. ASSUME NEW j \in Workers, j # k
        PROVE  pc[j] \notin Mending
    <3>1. CASE j = w
      BY <2>4, <3>1
    <3>2. CASE j # w
      BY <1>4, <2>5, <3>2, OthersFrame
    <3>3. QED
      BY <3>1, <3>2
  <2>6. Held
    BY <1>1, <2>2, <2>3, <2>5
  <2>7. QED
    BY <2>2, <2>3, <2>6 DEF Joined
<1>5. ASSUME NEW w \in Workers, NEW on \in BOOLEAN, SetActive(w, on)
      PROVE  Joined(profile.tenant)' /\ (profile'.tenant # want'[k] =>
                 profile'.role = member'[profile'.tenant].role)
  <2>1. /\ profile'.tenant = profile.tenant /\ profile'.role = profile.role
        /\ profile'.active = on /\ member' = member
    BY <1>5 DEF SetActive, TypeOK, Profiles
  <2>2. Backed
    BY <1>5, <2>1 DEF SetActive
  <2>3. QED
    BY <2>1, <2>2 DEF Backed, Joined
<1>6. ASSUME NEW w \in Workers, Fail(w)
      PROVE  Joined(profile.tenant)' /\ (profile'.tenant # want'[k] =>
                 profile'.role = member'[profile'.tenant].role)
  <2>1. pc'[w] = "idle" /\ w # k
    BY <1>6 DEF Fail, Done, Goto, TypeOK
  <2>2. /\ UNCHANGED <<member, profile>> /\ disturbed'[k] = disturbed[k]
        /\ pc[w] \notin Mending /\ tainted = {}
    BY <1>6, <2>1 DEF Fail, rows, TypeOK
  <2>3. pc'[k] = pc[k] /\ want'[k] = want[k]
    BY <1>6, <2>1, OthersFrame
  <2>4. ASSUME NEW j \in Workers, j # k
        PROVE  pc[j] \notin Mending
    <3>1. CASE j = w
      BY <2>2, <3>1
    <3>2. CASE j # w
      BY <1>6, <2>4, <3>2, OthersFrame
    <3>3. QED
      BY <3>1, <3>2
  <2>5. Held
    BY <1>1, <2>2, <2>3, <2>4
  <2>6. QED
    BY <2>2, <2>3, <2>5 DEF Joined
<1>7. CASE Tick \/ UNCHANGED vars
  <2>1. UNCHANGED <<member, profile, pc, want, disturbed, tainted>>
    BY <1>7 DEF Tick, vars, rows, local
  <2>2. Held
    BY <1>1, <2>1
  <2>3. QED
    BY <2>1, <2>2 DEF Joined
<1>8. QED
  BY <1>2, <1>3, <1>4, <1>5, <1>6, <1>7, StepKinds DEF Next

LEMMA HonestStep ==
    ASSUME TypeOK, KnowsInv, PatchInv, SnapshotHonest, [Next]_vars
    PROVE  SnapshotHonest'
<1> SUFFICES ASSUME profile'.active, tainted' = {},
                    \A j \in Workers : pc'[j] \notin Mending
             PROVE  Backed'
  BY DEF SnapshotHonest
<1>1. ASSUME UNCHANGED <<member, profile, tainted>>, NEW w \in Workers,
             pc[w] \notin Mending,
             \A j \in Workers : j # w => pc'[j] = pc[j]
      PROVE  Backed'
  <2>1. \A j \in Workers : pc[j] \notin Mending
    BY <1>1
  <2>2. Backed
    BY <1>1, <2>1 DEF SnapshotHonest
  <2>3. QED
    BY <1>1, <2>2 DEF Backed, Joined
<1>2. ASSUME NEW w \in Workers, WriteSnapshot(w)
      PROVE  Backed'
  <2>1. ~disturbed[w] /\ Knows(w)
    BY <1>2 DEF WriteSnapshot, KnowsInv
  <2>2. /\ profile'.tenant = plan[w].tenant /\ profile'.role = plan[w].role
        /\ member' = member
    BY <1>2 DEF WriteSnapshot, TypeOK, Profiles
  <2>3. QED
    BY <1>2, <2>1, <2>2 DEF WriteSnapshot, Knows, Backed, Joined
<1>3. ASSUME NEW w \in Workers, NEW t \in Tenants, NEW r \in Roles,
             AddMembership(w, t, r)
      PROVE  Backed'
  <2>1. Backed
    BY <1>3 DEF AddMembership, SnapshotHonest
  <2>2. profile.tenant # t /\ profile.tenant \in Tenants
    BY <1>3, <2>1 DEF AddMembership, Backed, Joined, TypeOK, Profiles
  <2>3. member'[profile.tenant] = member[profile.tenant] /\ profile' = profile
    BY <1>3, <2>2 DEF AddMembership, TypeOK
  <2>4. QED
    BY <2>1, <2>3 DEF Backed, Joined
<1>4. ASSUME NEW w \in Workers, CloseProfile(w)
      PROVE  FALSE
  BY <1>4 DEF CloseProfile, TypeOK, Profiles
<1>5. ASSUME NEW w \in Workers, PatchMembership(w)
      PROVE  Backed'
  <2>1. ~disturbed[w] /\ Knows(w) /\ tainted = {} /\ profile' = profile
    BY <1>5 DEF PatchMembership, KnowsInv
  <2>2. \A j \in Workers : j # w => pc[j] \notin Mending
    BY <1>5 DEF PatchMembership, Done, Goto, TypeOK
  <2>3. /\ Joined(profile.tenant)
        /\ profile.tenant # want[w] =>
             profile.role = member[profile.tenant].role
    BY <1>5, <2>1, <2>2 DEF PatchInv, PatchMembership
  <2>4. profile.tenant = want[w] => profile.role = role[w]
    BY <1>5, <2>1 DEF Knows, PatchMembership
  <2>5. profile.tenant \in Tenants /\ member[profile.tenant] \in Memberships
    BY <2>3 DEF Joined, TypeOK, Profiles
  <2>6. CASE profile.tenant = want[w]
    <3>1. member'[profile.tenant] = [member[profile.tenant] EXCEPT !.role = role[w]]
      BY <1>5, <2>3, <2>5, <2>6 DEF PatchMembership, Joined, TypeOK
    <3>2. /\ member'[profile.tenant].role = role[w]
          /\ member'[profile.tenant].active
          /\ member'[profile.tenant] \in Memberships
      <4>1. role[w] \in Roles
        BY <1>5 DEF PatchMembership, TypeOK
      <4>2. QED
        BY <2>3, <2>5, <3>1, <4>1 DEF Memberships, Joined
    <3>3. QED
      BY <2>1, <2>4, <2>6, <3>2 DEF Backed, Joined
  <2>7. CASE profile.tenant # want[w]
    <3>1. member'[profile.tenant] = member[profile.tenant]
      BY <1>5, <2>5, <2>7 DEF PatchMembership, TypeOK
    <3>2. QED
      BY <2>1, <2>3, <2>7, <3>1 DEF Backed, Joined
  <2>8. QED
    BY <2>6, <2>7
<1>6. ASSUME NEW w \in Workers, Reads(w), Request(w) \/ Edit(w)
      PROVE  Backed'
  <2>1. CASE ReadSnapshot(w) \/ MatchMembership(w)
    <3>1. pc'[w] \in {"matching", "rewriting", "closing"}
      BY <2>1 DEF ReadSnapshot, MatchMembership, Goto, TypeOK
    <3>2. QED
      BY <3>1 DEF Mending
  <2>2. CASE ~ReadSnapshot(w) /\ ~MatchMembership(w)
    <3>1. pc[w] \notin Mending
      BY <1>6, <2>2 DEF Reads, Ask, LoadProfile, PutProfile, Validate, Mending
    <3>2. QED
      BY <1>1, <1>6, <3>1, ReadsFrame, OthersFrame
  <2>3. QED
    BY <2>1, <2>2
<1>7. ASSUME NEW w \in Workers, NEW on \in BOOLEAN, SetActive(w, on)
      PROVE  Backed'
  <2>1. /\ profile'.tenant = profile.tenant /\ profile'.role = profile.role
        /\ profile'.active = on /\ member' = member
    BY <1>7 DEF SetActive, TypeOK, Profiles
  <2>2. Backed
    BY <1>7, <2>1 DEF SetActive
  <2>3. QED
    BY <2>1, <2>2 DEF Backed, Joined
<1>8. ASSUME NEW w \in Workers, Fail(w)
      PROVE  Backed'
  <2>1. UNCHANGED <<member, profile, tainted>> /\ pc[w] \notin Mending
    BY <1>8 DEF Fail, rows
  <2>2. QED
    BY <1>1, <1>8, <2>1, OthersFrame
<1>9. CASE Tick \/ UNCHANGED vars
  <2>1. UNCHANGED <<member, profile, pc, tainted>>
    BY <1>9 DEF Tick, vars, rows
  <2>2. QED
    BY <2>1 DEF SnapshotHonest, Backed, Joined
<1>10. QED
  <2>1. ASSUME NEW w \in Workers, Changes(w)
        PROVE  Backed'
    <3>1. CASE \E t \in Tenants, m \in Memberships \cup {NoRow} :
                 EditMembership(w, t, m)
      <4>1. PICK t \in Tenants, m \in Memberships \cup {NoRow} :
              EditMembership(w, t, m)
        BY <3>1
      <4>2. pc'[w] = "deriving"
        BY <4>1 DEF EditMembership, Goto, TypeOK
      <4>3. QED
        BY <4>2 DEF Mending
    <3>2. CASE \E t \in Tenants, r \in Roles : PatchUser(w, t, r)
      <4>1. PICK t \in Tenants, r \in Roles : PatchUser(w, t, r)
        BY <3>2
      <4>2. pc'[w] = "patching"
        BY <4>1 DEF PatchUser, Goto, TypeOK
      <4>3. QED
        BY <4>2 DEF Mending
    <3>3. QED
      BY <1>2, <1>3, <1>4, <1>5, <2>1, <3>1, <3>2 DEF Changes
  <2>2. QED
    BY <1>6, <1>7, <1>8, <1>9, <2>1, StepKinds DEF Next

LEMMA HonestInit ==
    ASSUME Init
    PROVE  KnowsInv /\ PatchInv /\ SnapshotHonest
<1>1. \A w \in Workers : pc[w] = "idle"
  BY DEF Init
<1>2. KnowsInv
  BY <1>1 DEF KnowsInv, Knows
<1>3. PatchInv
  BY <1>1 DEF PatchInv
<1>4. ASSUME tainted = {}
      PROVE  Backed
  <2>1. profile.tenant \in Tenants
    BY DEF Init, Profiles
  <2>2. /\ member[profile.tenant] # NoRow
        /\ profile.role = member[profile.tenant].role
    BY <1>4 DEF Init
  <2>3. member[profile.tenant] \in [role : Roles, active : {TRUE}]
    BY <2>1, <2>2 DEF Init
  <2>4. QED
    BY <2>2, <2>3 DEF Backed, Joined
<1>5. QED
  BY <1>2, <1>3, <1>4 DEF SnapshotHonest

\* With no edit under way and no cause on record, the snapshot of an account
\* that is on copies an active membership, however calls interleaved.
THEOREM SnapshotHonestHolds == Spec => []SnapshotHonest
<1>1. TypeOK /\ KnowsInv /\ PatchInv /\ SnapshotHonest /\ [Next]_vars
        => KnowsInv' /\ PatchInv' /\ SnapshotHonest'
  BY KnowsStep, PatchStep, HonestStep
<1>2. QED
  BY HonestInit, TypeCorrect, <1>1, PTL DEF Spec

\* Only a user's own switch, or a repair that something came in between, takes
\* him out of a workspace he is active in.
THEOREM EditKeepsWorkspaceHolds == Spec => EditKeepsWorkspace
<1> DEFINE Moved ==
      profile'.tenant # profile.tenant /\ Joined(profile.tenant) =>
        \E w \in Workers : /\ pc'[w] = "idle"
                           /\ \/ pc[w] = "writing"
                              \/ pc[w] = "rewriting" /\ disturbed[w]
<1>1. TypeOK /\ KnowsInv /\ [Next]_vars => Moved
  <2> SUFFICES ASSUME TypeOK, KnowsInv, [Next]_vars,
                      profile'.tenant # profile.tenant, Joined(profile.tenant)
               PROVE  \E w \in Workers : /\ pc'[w] = "idle"
                                         /\ \/ pc[w] = "writing"
                                            \/ pc[w] = "rewriting" /\ disturbed[w]
    OBVIOUS
  <2>1. ASSUME NEW w \in Workers, WriteSnapshot(w)
        PROVE  \E k \in Workers : /\ pc'[k] = "idle"
                                  /\ \/ pc[k] = "writing"
                                     \/ pc[k] = "rewriting" /\ disturbed[k]
    <3>1. pc'[w] = "idle" /\ profile'.tenant = plan[w].tenant
          /\ pc[w] \in {"writing", "rewriting"}
      BY <2>1 DEF WriteSnapshot, Done, Goto, TypeOK, Profiles
    <3>2. pc[w] = "rewriting" => disturbed[w]
      BY <3>1 DEF KnowsInv, Knows
    <3>3. QED
      BY <3>1, <3>2
  <2>2. ASSUME NEW w \in Workers, Changes(w), ~WriteSnapshot(w)
        PROVE  FALSE
    BY <2>2 DEF Changes, CloseProfile, PatchMembership, AddMembership, PatchUser,
       EditMembership, TypeOK, Profiles
  <2>3. ASSUME NEW w \in Workers, NEW on \in BOOLEAN, SetActive(w, on)
        PROVE  FALSE
    BY <2>3 DEF SetActive, TypeOK, Profiles
  <2>4. ASSUME NEW w \in Workers, Reads(w) \/ Fail(w)
        PROVE  FALSE
    BY <2>4, ReadsFrame DEF Fail, rows
  <2>5. CASE Tick \/ UNCHANGED vars
    BY <2>5 DEF Tick, vars, rows
  <2>6. QED
    BY <2>1, <2>2, <2>3, <2>4, <2>5, StepKinds DEF Next
<1>2. KnowsInv /\ TypeOK /\ [Next]_vars => KnowsInv'
  BY KnowsStep
<1>3. Init => KnowsInv
  BY HonestInit
<1>4. TypeOK /\ KnowsInv /\ [Next]_vars => [Moved]_vars
  BY <1>1
<1>5. QED
  BY TypeCorrect, <1>2, <1>3, <1>4, PTL DEF Spec, EditKeepsWorkspace

===============================================================================
