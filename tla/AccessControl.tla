----------------------------- MODULE AccessControl -----------------------------
(***************************************************************************)
(* Which workspace a user is in, and with which role.  The truth is in     *)
(* tenant_memberships; profiles holds a copy of the active membership      *)
(* (tenant, role, scope) and requests trust that copy                      *)
(* (backend/app/core/tenant.py); every process keeps a copy of the copy    *)
(* for some seconds (backend/app/core/supabase/auth_cache.py).  Requests   *)
(* of the user, who switches workspace, and edits by administrators        *)
(* (backend/app/features/memberships, backend/app/features/users) keep the *)
(* copies.                                                                 *)
(*                                                                         *)
(* One user.  A worker is a process of the API: its handlers do not yield, *)
(* so it has one call under way at a time, and it may end at any point.  A *)
(* step is one call to the database with the changes to the process' own   *)
(* cache that follow it.  A role stands for role and scope together.       *)
(*                                                                         *)
(* Ghost variables: disturbed and tainted record history and guard         *)
(* nothing, as do the fields lag and old of a cached profile; changes and  *)
(* failures bound what happens in a behaviour.                             *)
(***************************************************************************)
EXTENDS Integers

CONSTANTS
    Tenants,
    Roles,
    Workers,
    TTL,          \* _PROFILE_TTL_SECONDS, in ticks of the clock
    MaxLag,       \* bound: ticks the database may take to answer
    MaxChanges,   \* bound: edits by administrators and switches
    MaxFailures,  \* bound: calls that fail in passing and workers that end
    NoRow

ASSUME ConstantsAssumption ==
    /\ TTL \in Nat \ {0}
    /\ MaxLag \in Nat
    /\ MaxChanges \in Nat
    /\ MaxFailures \in Nat

Memberships == [role : Roles, active : BOOLEAN]
Profiles    == [tenant : Tenants, role : Roles, active : BOOLEAN]
Plans       == [tenant : Tenants, role : Roles]

\* left: ticks to the deadline; lag: ticks from the read of the row to the
\* put; old: ticks since the row in the table has been another one.
Entries == [row : Profiles, left : 1..TTL, lag : 0..MaxLag, old : Nat]

ASSUME NoRowAssumption ==
    /\ NoRow \notin Tenants /\ NoRow \notin Roles /\ NoRow \notin Memberships
    /\ NoRow \notin Profiles /\ NoRow \notin Plans /\ NoRow \notin Entries

VARIABLES
    member,     \* tenant_memberships of the user, by tenant
    profile,    \* the row of profiles
    cache,      \* worker: its _profile_cache, for this user
    pc,
    want,       \* worker: the tenant the call is about
    switch,     \* worker: the call is a request, or an activation
    loaded,     \* worker: the profile being loaded, not in the cache yet
    plan,       \* worker: the snapshot it is about to write, or NoRow
    role,       \* worker: the role update_user gives
    disturbed,  \* worker: memberships or snapshot changed under it
    tainted,    \* why the snapshot may be wrong, if it may
    changes,
    failures

rows  == <<member, profile>>
local == <<want, switch, loaded, plan, role>>
bound == <<changes, failures>>
vars  == <<rows, cache, pc, local, disturbed, tainted, bound>>

States == {"idle", "loading", "merging", "checking", "writing",
           "deriving", "matching", "rewriting", "closing", "patching"}

\* A worker that has answers of the database to act upon, or is between two
\* writes; and one whose write of a membership is not yet mirrored.
Holding == {"writing", "matching", "rewriting", "closing", "patching"}
Mending == {"deriving", "matching", "rewriting", "closing", "patching"}

TypeOK ==
    /\ member \in [Tenants -> Memberships \cup {NoRow}]
    /\ profile \in Profiles
    /\ cache \in [Workers -> Entries \cup {NoRow}]
    /\ pc \in [Workers -> States]
    /\ want \in [Workers -> Tenants \cup {NoRow}]
    /\ \A w \in Workers : pc[w] # "idle" /\ pc[w] # "deriving" => want[w] # NoRow
    /\ switch \in [Workers -> BOOLEAN]
    /\ loaded \in [Workers -> Entries \cup {NoRow}]
    /\ \A w \in Workers : pc[w] = "merging" => loaded[w] # NoRow
    /\ plan \in [Workers -> Plans \cup {NoRow}]
    /\ \A w \in Workers : pc[w] \in {"writing", "rewriting"} => plan[w] # NoRow
    /\ role \in [Workers -> Roles \cup {NoRow}]
    /\ \A w \in Workers : pc[w] = "patching" => role[w] # NoRow
    /\ disturbed \in [Workers -> BOOLEAN]
    /\ tainted \subseteq {"unjoined", "late", "ended", "reopened"}
    /\ changes \in 0..MaxChanges
    /\ failures \in 0..MaxFailures

\* A user as create_user leaves one: memberships, and a profile that copies one;
\* or, the insert of the memberships having failed after that of the profile,
\* which is only logged, a profile that names a workspace he is not in.
Init ==
    /\ member \in [Tenants -> [role : Roles, active : {TRUE}] \cup {NoRow}]
    /\ profile \in Profiles
    /\ \/ /\ member[profile.tenant] # NoRow
          /\ profile.role = member[profile.tenant].role
          /\ tainted = {}
       \/ /\ \A t \in Tenants : member[t] = NoRow
          /\ tainted = {"unjoined"}
    /\ cache = [w \in Workers |-> NoRow]
    /\ pc = [w \in Workers |-> "idle"]
    /\ want = [w \in Workers |-> NoRow]
    /\ role = [w \in Workers |-> NoRow]
    /\ switch = [w \in Workers |-> FALSE]
    /\ loaded = [w \in Workers |-> NoRow]
    /\ plan = [w \in Workers |-> NoRow]
    /\ disturbed = [w \in Workers |-> FALSE]
    /\ changes = 0
    /\ failures = 0

-------------------------------------------------------------------------------
(* Helpers                                                                 *)

Goto(w, to) == pc' = [pc EXCEPT ![w] = to]

\* The call is over and its variables are gone.
Done(w) ==
    /\ Goto(w, "idle")
    /\ want' = [want EXCEPT ![w] = NoRow]
    /\ switch' = [switch EXCEPT ![w] = FALSE]
    /\ loaded' = [loaded EXCEPT ![w] = NoRow]
    /\ plan' = [plan EXCEPT ![w] = NoRow]
    /\ role' = [role EXCEPT ![w] = NoRow]

\* An active membership in t.
Joined(t) == member[t] # NoRow /\ member[t].active

\* The snapshot is a copy of an active membership.
Backed ==
    /\ Joined(profile.tenant)
    /\ profile.role = member[profile.tenant].role

\* Memberships or snapshot change under the other workers.
Disturb(w) ==
    disturbed' = [k \in Workers |->
                    IF k = w THEN FALSE ELSE disturbed[k] \/ pc[k] \in Holding]

\* What a tick does to a cached profile.
Aged(e) ==
    [e EXCEPT !.old = IF e.row = profile THEN 0 ELSE @ + 1]

\* Mistakes the runs must notice: an entry at its deadline that is kept, one
\* that never comes closer to it, the first membership instead of the one the
\* snapshot names, an edit without the call that repairs the snapshot.
KeptPast(e)   == IF e = NoRow THEN NoRow ELSE [Aged(e) EXCEPT !.left = @ - 1]
KeptAlways(e) == IF e = NoRow THEN NoRow ELSE Aged(e)
AnyMembership(w) == {t \in Tenants : Joined(t)}
EditOnly(w, t, m) ==
    /\ pc[w] = "idle"
    /\ m = NoRow \/ member[t] # NoRow
    /\ changes < MaxChanges /\ changes' = changes + 1
    /\ member' = [member EXCEPT ![t] = m]
    /\ UNCHANGED <<profile, cache, pc, local, disturbed, tainted, failures>>

Kept(e) ==
    IF e = NoRow \/ e.left = 1 THEN NoRow
    ELSE [Aged(e) EXCEPT !.left = @ - 1]

Slowed(e) ==
    IF e = NoRow THEN NoRow ELSE [Aged(e) EXCEPT !.lag = @ + 1]

\* invalidate_profile, in this process only.
Invalidate(w) == cache' = [cache EXCEPT ![w] = NoRow]

Changing == changes < MaxChanges /\ changes' = changes + 1

Failing == failures < MaxFailures /\ failures' = failures + 1

\* get_current_user and resolve_active_tenant with a profile in hand: 403 for
\* an account that is off; a request for the tenant of the snapshot is served
\* with no further question; any other has its membership checked.
Settled(row, t, s) == ~row.active \/ (row.tenant = t /\ ~s)

-------------------------------------------------------------------------------
(* Requests of the user                                                    *)

\* A request under the header of tenant t, or POST /memberships/activate.  One
\* that a cached profile settles changes nothing.
Ask(w, t, s) ==
    /\ pc[w] = "idle"
    /\ \/ Goto(w, "loading") /\ cache[w] = NoRow
       \/ Goto(w, "checking") /\ cache[w] # NoRow /\ ~Settled(cache[w].row, t, s)
    /\ want' = [want EXCEPT ![w] = t]
    /\ switch' = [switch EXCEPT ![w] = s]
    /\ UNCHANGED <<rows, cache, loaded, plan, role, disturbed, tainted, bound>>

\* The cache has nothing: the row of profiles is read ...
LoadProfile(w) ==
    /\ pc[w] = "loading"
    /\ Goto(w, "merging")
    /\ loaded' = [loaded EXCEPT
         ![w] = [row |-> profile, left |-> TTL, lag |-> 0, old |-> 0]]
    /\ UNCHANGED <<rows, cache, want, switch, plan, role, disturbed, tainted,
                   bound>>

\* ... and, after the flags of its membership, put into the cache.
PutProfile(w) ==
    LET settled == Settled(loaded[w].row, want[w], switch[w]) IN
    /\ pc[w] = "merging"
    /\ cache' = [cache EXCEPT ![w] = loaded[w]]
    /\ \/ Done(w) /\ settled
       \/ /\ Goto(w, "checking") /\ ~settled
          /\ loaded' = [loaded EXCEPT ![w] = NoRow]
          /\ UNCHANGED <<want, switch, plan, role>>
    /\ UNCHANGED <<rows, disturbed, tainted, bound>>

\* _validate_membership, or the check of activate, which may also refuse a
\* workspace that is for developers only.
Validate(w) ==
    LET t == want[w] IN
    /\ pc[w] = "checking"
    /\ \/ /\ Joined(t)
          /\ Goto(w, "writing")
          /\ plan' = [plan EXCEPT
                        ![w] = [tenant |-> t, role |-> member[t].role]]
          /\ UNCHANGED <<want, switch, loaded, role>>
       \/ (~Joined(t) \/ switch[w]) /\ Done(w)
    /\ UNCHANGED <<rows, cache, disturbed, tainted, bound>>

\* The UPDATE of profiles that a switch and _sync_profile_snapshot end with.
WriteSnapshot(w) ==
    /\ pc[w] \in {"writing", "rewriting"}
    /\ Done(w)
    /\ profile' = [profile EXCEPT !.tenant = plan[w].tenant,
                                  !.role = plan[w].role]
    /\ Invalidate(w)
    /\ Disturb(w)
    /\ tainted' = IF disturbed[w] THEN {"late"} ELSE {}
    /\ UNCHANGED <<member, bound>>

-------------------------------------------------------------------------------
(* Edits by an administrator                                               *)

\* MembershipService.add: the primary key is (user, tenant).
AddMembership(w, t, r) ==
    /\ pc[w] = "idle"
    /\ member[t] = NoRow
    /\ Changing
    /\ member' = [member EXCEPT ![t] = [role |-> r, active |-> TRUE]]
    /\ Invalidate(w)
    /\ Disturb(w)
    /\ UNCHANGED <<profile, pc, local, tainted, failures>>

\* MembershipService.update and delete: the membership first.
EditMembership(w, t, m) ==
    /\ pc[w] = "idle"
    /\ m = NoRow \/ member[t] # NoRow
    /\ Changing
    /\ Goto(w, "deriving")
    /\ member' = [member EXCEPT ![t] = m]
    /\ Disturb(w)
    /\ UNCHANGED <<profile, cache, local, tainted, failures>>

\* _sync_profile_snapshot: the tenant the snapshot names ...
ReadSnapshot(w) ==
    /\ pc[w] = "deriving"
    /\ Goto(w, "matching")
    /\ want' = [want EXCEPT ![w] = profile.tenant]
    /\ UNCHANGED <<rows, cache, switch, loaded, plan, role, disturbed, tainted,
                   bound>>

\* ... its membership, else the first that is active: here, any of them.
Candidates(w) ==
    IF Joined(want[w]) THEN {want[w]} ELSE {t \in Tenants : Joined(t)}

MatchMembership(w) ==
    /\ pc[w] = "matching"
    /\ \/ \E t \in Candidates(w) :
            /\ Goto(w, "rewriting")
            /\ plan' = [plan EXCEPT
                          ![w] = [tenant |-> t, role |-> member[t].role]]
       \/ /\ Candidates(w) = {}
          /\ Goto(w, "closing")
          /\ UNCHANGED plan
    /\ UNCHANGED <<rows, cache, want, switch, loaded, role, disturbed, tainted,
                   bound>>

\* No membership is left: tenant_id is NOT NULL, so the account is turned off.
CloseProfile(w) ==
    /\ pc[w] = "closing"
    /\ Done(w)
    /\ profile' = [profile EXCEPT !.active = FALSE]
    /\ Invalidate(w)
    /\ Disturb(w)
    /\ UNCHANGED <<member, tainted, bound>>

\* UserService.update_user, by an administrator of tenant t: the profile, if t
\* is its tenant, and then the membership; no cache is told.
PatchUser(w, t, r) ==
    /\ pc[w] = "idle"
    /\ Changing
    /\ Goto(w, "patching")
    /\ want' = [want EXCEPT ![w] = t]
    /\ role' = [role EXCEPT ![w] = r]
    /\ profile' = IF profile.tenant = t THEN [profile EXCEPT !.role = r]
                                        ELSE profile
    /\ Disturb(w)
    /\ UNCHANGED <<member, cache, switch, loaded, plan, tainted, failures>>

PatchMembership(w) ==
    LET t == want[w] IN
    /\ pc[w] = "patching"
    /\ Done(w)
    /\ member' = IF member[t] = NoRow THEN member
                 ELSE [member EXCEPT ![t].role = role[w]]
    /\ Disturb(w)
    /\ tainted' = IF disturbed[w] THEN tainted \cup {"late"} ELSE tainted
    /\ UNCHANGED <<profile, cache, bound>>

\* disable_user, enable_user, and update_user with the flag.  Turning an
\* account on asks nothing of its memberships.
SetActive(w, on) ==
    /\ pc[w] = "idle"
    /\ Changing
    /\ profile' = [profile EXCEPT !.active = on]
    /\ cache' \in {cache, [cache EXCEPT ![w] = NoRow]}
    /\ tainted' = IF on /\ ~Backed THEN tainted \cup {"reopened"} ELSE tainted
    /\ UNCHANGED <<member, pc, local, disturbed, failures>>

-------------------------------------------------------------------------------
\* A call that raises, or the end of the process with its cache; a new process
\* takes its place.
Fail(w) ==
    /\ pc[w] # "idle"
    /\ Failing
    /\ Done(w)
    /\ cache' \in {cache, [cache EXCEPT ![w] = NoRow]}
    /\ disturbed' = [disturbed EXCEPT ![w] = FALSE]
    /\ tainted' = IF pc[w] \in Mending THEN tainted \cup {"ended"} ELSE tainted
    /\ UNCHANGED <<rows, changes>>

\* Time passes; the database answers within MaxLag.
Tick ==
    /\ \A w \in Workers : loaded[w] # NoRow => loaded[w].lag < MaxLag
    /\ cache' = [w \in Workers |-> Kept(cache[w])]
    /\ loaded' = [w \in Workers |-> Slowed(loaded[w])]
    /\ UNCHANGED <<rows, pc, want, switch, plan, role, disturbed, tainted, bound>>

Request(w) ==
    \/ \E t \in Tenants, s \in BOOLEAN : Ask(w, t, s)
    \/ LoadProfile(w) \/ PutProfile(w) \/ Validate(w) \/ WriteSnapshot(w)

Edit(w) ==
    \/ \E t \in Tenants, r \in Roles : AddMembership(w, t, r) \/ PatchUser(w, t, r)
    \/ \E t \in Tenants, m \in Memberships \cup {NoRow} : EditMembership(w, t, m)
    \/ ReadSnapshot(w) \/ MatchMembership(w) \/ CloseProfile(w)
    \/ PatchMembership(w)
    \/ \E on \in BOOLEAN : SetActive(w, on)

Next == Tick \/ \E w \in Workers : Request(w) \/ Edit(w) \/ Fail(w)

Spec == Init /\ [][Next]_vars

-------------------------------------------------------------------------------
(* Properties                                                              *)

\* When no edit is under way, the snapshot of an account that is on copies an
\* active membership, role included, however requests and edits interleaved;
\* unless the user was created without his memberships, the snapshot was written
\* from answers that had changed meanwhile, an edit ended between its writes, or
\* the account was turned on without it.  The causes are the code's, and two
\* comments know of none: auth_cache.py:46-49 has the membership that survives
\* its revocation "closed structurally by _sync_profile_snapshot", which races
\* and can end half way, and tenant.py:101-104 has two writers of tenant_id, both
\* of which validate the membership first, when create_user is a third.
SnapshotHonest ==
    profile.active /\ tainted = {} /\ (\A w \in Workers : pc[w] \notin Mending)
        => Backed

\* auth_cache.py's bound: with no invalidation at all a process answers from a
\* profile that was replaced at most a TTL ago, plus the time the read of it
\* took, since the deadline counts from the put.
StaleBounded ==
    \A w \in Workers : cache[w] # NoRow =>
        cache[w].old <= TTL - cache[w].left + cache[w].lag

\* An edit of memberships does not move a user out of a workspace he is still
\* active in, unless memberships or snapshot changed between its reads and its
\* write: only the user's own switch does.
EditKeepsWorkspace ==
    [][ profile'.tenant # profile.tenant /\ Joined(profile.tenant) =>
          \E w \in Workers : /\ pc'[w] = "idle"
                             /\ \/ pc[w] = "writing"
                                \/ pc[w] = "rewriting" /\ disturbed[w] ]_vars
===============================================================================
