--------------------------- MODULE PendingProposals ---------------------------
(***************************************************************************)
(* The review queue of the assistant (backend/app/features/pending): the   *)
(* assistant proposes, and a human accepts, rejects, reopens or undoes.    *)
(*                                                                         *)
(* Every call to the database is a transaction of its own and the calls of *)
(* two HTTP requests interleave (two uvicorn workers, several instances),  *)
(* so a request is a process and a step is one call to the database.  A    *)
(* request serves one operation on one proposal and is then finished; a    *)
(* retry, a second tab or an element of a bulk accept is another request.  *)
(* A turn of the assistant that may write alone is a request as well.      *)
(*                                                                         *)
(* Ghost variables: stay, claimStay, overruled and overtaken record        *)
(* history for the properties and guard nothing.                           *)
(***************************************************************************)
EXTENDS Integers

CONSTANTS
    Proposals,  \* rows of pending_proposals
    Requests,   \* HTTP requests; also the name of the record a request creates
    Existing,   \* the CRM record that proposals of kind update and photos name
    None,       \* SQL NULL
    Kinds,      \* the shapes of proposal present, a subset of AllKinds
    Skews       \* application clock minus database clock, per claim

\* create: the executor inserts a record; update: it modifies an existing one
\* (propose_update_person); photos: it attaches media to an existing property.
AllKinds == {"create", "update", "photos"}

Rows == Requests \cup {Existing}

ASSUME ConstantsAssumption ==
    /\ Kinds \subseteq AllKinds
    /\ Skews \subseteq Int
    /\ Existing \notin Requests
    /\ None \notin Rows \cup Int

VARIABLES
    kind, status, reviewedAt, createdRow,  \* pending_proposals, by proposal
    effect,     \* effect[r]: what became of the record the executor run by r wrote
    audit,      \* audit_log
    now,        \* database clock; it advances with each audited write
    pc, on,     \* per request: where it is and the proposal it is about
    stamp,      \* accept: the reviewed_at computed before the claim
    snapRow, snapAt,  \* undo: what it read and will act upon
    stay, claimStay,
    overruled,  \* proposals of which a reject overrode an acceptance
    overtaken   \* proposals of which an undo flipped an acceptance it had not read

queue == <<kind, status, reviewedAt, createdRow>>
crm   == <<effect, audit, now>>
local == <<stamp, snapRow, snapAt>>
ghost == <<stay, claimStay, overruled, overtaken>>
vars  == <<queue, crm, pc, on, local, ghost>>

\* From the claim of an accept, or the start of a turn that writes alone, to its
\* last call; from the read of an undo to its last UPDATE; and any request that
\* is not over.
InFlight == {"executing", "attaching", "finalizing", "releasing"}
Undoing  == {"checking", "reversing", "flipping"}
Working  == {"claiming"} \cup InFlight \cup Undoing
\* done: answered; failed: answered 500 after a release; refused: undo declined
\* because the record changed; dead: the instance went away mid-request.
Ended   == {"done", "failed", "refused", "dead"}

\* absent: the assistant has not queued it; it may write it by itself.
Statuses == {"absent", "pending", "accepted", "rejected"}

\* removed: by the queue, in an undo or a rollback; deleted: by a person.
Effects == {"none", "written", "removed", "deleted"}

AuditRows == [row : Rows, at : Nat, by : {"agent", "user"}]

TypeOK ==
    /\ kind \in [Proposals -> Kinds]
    /\ status \in [Proposals -> Statuses]
    /\ reviewedAt \in [Proposals -> Int \cup {None}]
    /\ createdRow \in [Proposals -> Rows \cup {None}]
    /\ effect \in [Requests -> Effects]
    /\ audit \subseteq AuditRows
    /\ now \in Nat
    /\ pc \in [Requests -> {"idle"} \cup Working \cup Ended]
    /\ on \in [Requests -> Proposals \cup {None}]
    /\ \A r \in Requests : pc[r] \in Working => on[r] \in Proposals
    /\ stamp \in [Requests -> Int \cup {None}]
    /\ snapRow \in [Requests -> Rows \cup {None}]
    /\ \A r \in Requests : pc[r] \in Undoing => snapRow[r] \in Rows
    /\ snapAt \in [Requests -> Int \cup {None}]
    /\ stay \in [Proposals -> Nat \ {0}]
    /\ claimStay \in [Requests -> Nat]
    /\ overruled \subseteq Proposals
    /\ overtaken \subseteq Proposals

Init ==
    /\ kind \in [Proposals -> Kinds]
    /\ status = [p \in Proposals |-> "absent"]
    /\ reviewedAt = [p \in Proposals |-> None]
    /\ createdRow = [p \in Proposals |-> None]
    /\ effect = [r \in Requests |-> "none"]
    /\ audit = {}
    /\ now = 0
    /\ pc = [r \in Requests |-> "idle"]
    /\ on = [r \in Requests |-> None]
    /\ stamp = [r \in Requests |-> None]
    /\ snapRow = [r \in Requests |-> None]
    /\ snapAt = [r \in Requests |-> None]
    /\ stay = [p \in Proposals |-> 1]
    /\ claimStay = [r \in Requests |-> 0]
    /\ overruled = {}
    /\ overtaken = {}

-------------------------------------------------------------------------------
(* Helpers                                                                 *)

Begin(r, p, next) ==
    /\ pc[r] = "idle"
    /\ pc' = [pc EXCEPT ![r] = next]
    /\ on' = [on EXCEPT ![r] = p]

Goto(r, from, to) ==
    /\ pc[r] = from
    /\ pc' = [pc EXCEPT ![r] = to]
    /\ UNCHANGED on

\* The audit trigger: an audited write is stamped with the database clock.
Audited(x, who) ==
    /\ now' = now + 1
    /\ audit' = audit \cup {[row |-> x, at |-> now + 1, by |-> who]}

\* The executor's pair (table, row) taken in the wrong order.
TableForRow(p, r) == kind[p]

\* The record an accept of p by r reports as created_row_id.
RowOf(p, r) == IF kind[p] = "create" THEN r ELSE Existing

\* The record it writes: photos go to media rows of their own.
WrittenRow(p, r) == IF kind[p] = "update" THEN Existing ELSE r

SetStatus(p, to) == status' = [status EXCEPT ![p] = to]

\* Mistakes the runs must notice: no filter, a filter that also lets a rejected
\* proposal through, no release, the wrong status in the filter of undo.
ClaimUnfiltered(p)   == TRUE
ClaimNotAccepted(p)  == status[p] # "accepted"
ReleaseNothing(p)    == FALSE
FlipPending(p)       == status[p] = "pending"

\* The status filters of the UPDATEs that claim, release and flip back.
Claimable(p)  == status[p] = "pending"
Releasable(p) == status[p] = "accepted"
Flippable(p)  == status[p] = "accepted"

\* p returns to the queue: a new stay begins.
Requeue(p) ==
    /\ SetStatus(p, "pending")
    /\ reviewedAt' = [reviewedAt EXCEPT ![p] = None]
    /\ stay' = [stay EXCEPT ![p] = @ + 1]

-------------------------------------------------------------------------------
(* The assistant                                                           *)

\* The rows of the table: a person can only name these.
Listed == {p \in Proposals : status[p] # "absent"}

\* No turn of the assistant has taken p up.
Unasked(p) == status[p] = "absent" /\ \A r \in Requests : on[r] # p

\* r runs the executor for the assistant and not for a person who accepts: it
\* computes no reviewed_at.
Direct(r) == stamp[r] = None

\* The action is only suggested: _create_proposal, the INSERT of the row.
Propose(p) ==
    /\ Unasked(p)
    /\ SetStatus(p, "pending")
    /\ UNCHANGED <<kind, reviewedAt, createdRow, crm, pc, on, local, ghost>>

\* The policy of the tenant lets the assistant execute it.
Dispatch(r, p) ==
    /\ Unasked(p)
    /\ Begin(r, p, "executing")
    /\ UNCHANGED <<queue, crm, local, ghost>>

\* The executor returned: executed, without a proposal.
Executed(r) ==
    /\ Direct(r)
    /\ Goto(r, "finalizing", "done")
    /\ UNCHANGED <<queue, crm, local, ghost>>

\* It raised: the action is queued after all, whatever the write left behind.
FallBack(r) ==
    /\ Direct(r)
    /\ Goto(r, "releasing", "failed")
    /\ SetStatus(on[r], "pending")
    /\ UNCHANGED <<kind, reviewedAt, createdRow, crm, local, ghost>>

-------------------------------------------------------------------------------
(* Accept                                                                  *)

\* get_proposal and the checks before the claim.  A call that passes the status
\* check may still be turned away: no dispatcher for the kind, bad overrides.
AcceptRead(r, p) ==
    /\ \/ status[p] = "pending" /\ Begin(r, p, "claiming")
       \/ Begin(r, p, "done")
    /\ UNCHANGED <<queue, crm, local, ghost>>

\* reviewed_at is taken from the application clock, then the filtered UPDATE
\* pending -> accepted lets one caller through.
AcceptClaim(r) ==
    LET p == on[r] IN
    \/ /\ Goto(r, "claiming", "executing")
       /\ Claimable(p)
       /\ \E skew \in Skews : stamp' = [stamp EXCEPT ![r] = now + skew]
       /\ SetStatus(p, "accepted")
       /\ reviewedAt' = [reviewedAt EXCEPT ![p] = stamp'[r]]
       /\ claimStay' = [claimStay EXCEPT ![r] = stay[p]]
       /\ UNCHANGED <<kind, createdRow, crm, snapRow, snapAt,
                      stay, overruled, overtaken>>
    \/ /\ Goto(r, "claiming", "done")
       /\ ~Claimable(p)
       /\ UNCHANGED <<queue, crm, local, ghost>>

\* The executor's first write, for an accept or for a turn.  The call may raise
\* before it is committed, or be committed and raise all the same (the response
\* is lost).  Executors that write follow-up rows (participants, reminder,
\* assets) go on to "attaching".
Execute(r) ==
    LET p == on[r] IN
    \/ /\ Goto(r, "executing", "releasing")
       /\ UNCHANGED <<queue, crm, local, ghost>>
    \/ /\ \/ Goto(r, "executing", "attaching") /\ kind[p] # "update"
          \/ Goto(r, "executing", "finalizing")
          \/ Goto(r, "executing", "releasing")
       /\ effect' = [effect EXCEPT ![r] = "written"]
       /\ Audited(WrittenRow(p, r), "agent")
       /\ UNCHANGED <<queue, local, ghost>>

\* The follow-up rows.  When they fail, _rollback_on_failure deletes the first
\* write; a delete that fails too is only logged.
Attach(r) ==
    \/ /\ \/ Goto(r, "attaching", "finalizing")
          \/ Goto(r, "attaching", "releasing")
       /\ UNCHANGED <<queue, crm, local, ghost>>
    \/ /\ Goto(r, "attaching", "releasing")
       /\ effect' = [effect EXCEPT ![r] = "removed"]
       /\ Audited(WrittenRow(on[r], r), "agent")
       /\ UNCHANGED <<queue, local, ghost>>

\* The executor raised: accepted -> pending, filtered on status only.
Release(r) ==
    LET p == on[r] IN
    /\ ~Direct(r)
    /\ Goto(r, "releasing", "failed")
    /\ \/ /\ Releasable(p)
          /\ Requeue(p)
          /\ UNCHANGED <<kind, createdRow, crm, local, claimStay,
                         overruled, overtaken>>
       \/ /\ ~Releasable(p)
          /\ UNCHANGED <<queue, crm, local, ghost>>

\* The last UPDATE of an accept has no filter on status.
Finalize(r) ==
    LET p == on[r] IN
    /\ ~Direct(r)
    /\ Goto(r, "finalizing", "done")
    /\ SetStatus(p, "accepted")
    /\ reviewedAt' = [reviewedAt EXCEPT ![p] = stamp[r]]
    /\ createdRow' = [createdRow EXCEPT ![p] = RowOf(p, r)]
    /\ UNCHANGED <<kind, crm, local, ghost>>

-------------------------------------------------------------------------------
(* Reject and reopen: one UPDATE each                                      *)

\* Reject has no filter on status: whatever the proposal was, it is rejected.
Reject(r, p) ==
    /\ Begin(r, p, "done")
    /\ SetStatus(p, "rejected")
    /\ \E skew \in Skews :
           reviewedAt' = [reviewedAt EXCEPT ![p] = now + skew]
    /\ overruled' = IF status[p] = "accepted" THEN overruled \cup {p}
                                              ELSE overruled
    /\ UNCHANGED <<kind, createdRow, crm, local, stay, claimStay, overtaken>>

\* Reopen leaves created_row_id as it was: the record of an acceptance that a
\* reject overrode is neither taken back nor forgotten.
Reopen(r, p) ==
    /\ Begin(r, p, "done")
    /\ \/ /\ status[p] = "rejected"
          /\ Requeue(p)
          /\ UNCHANGED <<kind, createdRow, crm, local, claimStay,
                         overruled, overtaken>>
       \/ /\ status[p] # "rejected"
          /\ UNCHANGED <<queue, crm, local, ghost>>

-------------------------------------------------------------------------------
(* Undo                                                                    *)

\* get_proposal and the refusals that need no further query.
UndoRead(r, p) ==
    \/ /\ status[p] = "accepted"
       /\ createdRow[p] # None
       /\ kind[p] # "photos"
       /\ Begin(r, p, "checking")
       /\ snapRow' = [snapRow EXCEPT ![r] = createdRow[p]]
       /\ snapAt' = [snapAt EXCEPT ![r] = reviewedAt[p]]
       /\ UNCHANGED <<queue, crm, stamp, ghost>>
    \/ /\ status[p] # "accepted" \/ createdRow[p] = None \/ kind[p] = "photos"
       /\ Begin(r, p, "done")
       /\ UNCHANGED <<queue, crm, local, ghost>>

\* _newer_human_edit: any audit row of the record after reviewed_at, whoever
\* wrote it.
NewerEdit(r) ==
    \/ snapAt[r] = None
    \/ \E a \in audit : a.row = snapRow[r] /\ a.at > snapAt[r]

\* The guard, and for an update the image to restore, which is left out with all
\* content.  So is the refusal for a record without one: the accept under undo
\* wrote one, and migration 20240601000047 makes the audit log immutable.
UndoCheck(r) ==
    /\ \/ Goto(r, "checking", "refused") /\ NewerEdit(r)
       \/ Goto(r, "checking", "reversing") /\ ~NewerEdit(r)
    /\ UNCHANGED <<queue, crm, local, ghost>>

\* A reversal that forgets the record.
ReverseNothing(r) ==
    /\ Goto(r, "reversing", "flipping")
    /\ UNCHANGED <<queue, crm, local, ghost>>

\* Soft-delete the record that was created, deleted already or not, or restore
\* the one that was updated.
UndoReverse(r) ==
    LET x == snapRow[r] IN
    /\ Goto(r, "reversing", "flipping")
    /\ effect' = [q \in Requests |-> IF q = x THEN "removed" ELSE effect[q]]
    /\ Audited(x, "user")
    /\ UNCHANGED <<queue, local, ghost>>

\* accepted -> pending, filtered on status only: the acceptance it flips may be
\* a later one than the acceptance it read.
UndoFlip(r) ==
    LET p == on[r] IN
    /\ Goto(r, "flipping", "done")
    /\ \/ /\ Flippable(p)
          /\ Requeue(p)
          /\ createdRow' = [createdRow EXCEPT ![p] = None]
          /\ overtaken' = IF createdRow[p] # snapRow[r]
                          THEN overtaken \cup {p} ELSE overtaken
          /\ UNCHANGED <<kind, crm, local, claimStay, overruled>>
       \/ /\ ~Flippable(p)
          /\ UNCHANGED <<queue, crm, local, ghost>>

-------------------------------------------------------------------------------
(* The surroundings                                                        *)

\* What a request wrote as a record of its own and the screens still list.
Live(x) == /\ effect[x] = "written"
           /\ kind[on[x]] # "update"

\* A person edits a record on its own screen; the trigger audits it.
Edit(r, x) ==
    /\ x \in Requests => Live(x)
    /\ Begin(r, None, "done")
    /\ Audited(x, "user")
    /\ UNCHANGED <<queue, effect, local, ghost>>

\* A person deletes there what the assistant created (contacts, tasks and the
\* like: deleted_at).  The queue does not hear of it.
Delete(r, x) ==
    /\ Live(x)
    /\ Begin(r, None, "done")
    /\ effect' = [effect EXCEPT ![x] = "deleted"]
    /\ Audited(x, "user")
    /\ UNCHANGED <<queue, local, ghost>>

\* The instance serving r goes away: deploy, out of memory, request timeout.
Crash(r) ==
    /\ pc[r] \in Working
    /\ Goto(r, pc[r], "dead")
    /\ UNCHANGED <<queue, crm, local, ghost>>

Step(r) ==
    \/ \E p \in Proposals : Dispatch(r, p)
    \/ \E p \in Listed : \/ AcceptRead(r, p) \/ Reject(r, p)
                         \/ Reopen(r, p)     \/ UndoRead(r, p)
    \/ \E x \in Rows : Edit(r, x)
    \/ \E x \in Requests : Delete(r, x)
    \/ Executed(r) \/ FallBack(r)
    \/ AcceptClaim(r) \/ Execute(r) \/ Attach(r) \/ Release(r) \/ Finalize(r)
    \/ UndoCheck(r) \/ UndoReverse(r) \/ UndoFlip(r)
    \/ Crash(r)

Next ==
    \/ \E p \in Proposals : Propose(p)
    \/ \E r \in Requests : Step(r)

Spec == Init /\ [][Next]_vars

-------------------------------------------------------------------------------
(* Properties                                                              *)

\* Whatever clicks, tabs and retries race, the filtered UPDATE lets one accept
\* through per stay in the queue: two accepts that claimed the same proposal
\* claimed it in different stays.
ClaimOncePerStay ==
    \A r, s \in Requests :
        /\ r # s
        /\ on[r] = on[s]
        /\ claimStay[r] # 0
        => claimStay[r] # claimStay[s]

\* Between its claim and its answer, or dead in between.
Accepting(r, p) ==
    /\ on[r] = p
    /\ claimStay[r] # 0
    /\ pc[r] \in InFlight \cup {"dead"}

\* A proposal marked accepted that wrote nothing (service.py says the release
\* exists to prevent it) can only be one whose accept is still running or died.
NoPhantomAcceptance ==
    \A p \in Proposals :
        status[p] = "accepted" /\ createdRow[p] = None
            => \E r \in Requests : Accepting(r, p)

\* r answered with an error and left its record behind.
Leaked(r) == effect[r] = "written" /\ pc[r] \in {"releasing", "failed"}

\* One proposal has two live records only for one of three causes, each on record:
\* an executor failed without cleaning up, be it run by an accept or by the
\* assistant before it queued the proposal; an undo flipped an acceptance it had
\* not read; or a reject overrode an acceptance, and the proposal was reopened
\* and accepted again.  The last needs no race: accept, reject, reopen, accept.
\* The comment of reopen_proposal denies it ("nothing was written when it was
\* rejected ... there is nothing to reverse"); the code has no such guard.  A
\* race of accepts, a crash or a clean failure never duplicates.
DuplicateHasCause ==
    \A r, s \in Requests :
        /\ r # s
        /\ on[r] = on[s]
        /\ on[r] \in Proposals
        /\ kind[on[r]] # "update"
        /\ effect[r] = "written"
        /\ effect[s] = "written"
        => on[r] \in overruled \cup overtaken \/ Leaked(r) \/ Leaked(s)

\* The queue never leaves a proposal accepted whose record it has itself taken
\* back, except while an undo is between its two writes (or died there), or
\* while a new accept has yet to replace the name that a reject and a reopen
\* left behind.  What a person deletes on the record's own screen is another
\* matter: the proposal keeps its name, and undo answers for that row.
AcceptedRowLives ==
    \A p \in Proposals :
        /\ status[p] = "accepted"
        /\ createdRow[p] \in Requests
        /\ effect[createdRow[p]] = "removed"
        => \/ \E r \in Requests : /\ on[r] = p
                                  /\ pc[r] \in {"flipping", "dead"}
                                  /\ snapRow[r] = createdRow[p]
           \/ \E r \in Requests : Accepting(r, p)

\* The writes of p into the CRM: which accept, in which stay.
Writes ==
    [p \in Proposals |->
        {[by |-> r, stay |-> claimStay[r]] :
            r \in {q \in Requests : on[q] = p /\ effect[q] # "none"}}]

Ledger == INSTANCE ReviewLedger WITH Writers <- Requests, written <- Writes

\* The queue implements the ledger: the assistant writes an action at most once,
\* and every stay in the queue yields at most one more write.
LedgerSpec == Ledger!Spec

\* What undo.py:16-19 says of its guard: it refuses because a human edited the
\* record since the agent wrote it.
RefusalMeansHumanEdit ==
    \A r \in Requests :
        pc[r] = "refused" =>
            \E a \in audit : a.row = snapRow[r] /\ a.by = "user"
===============================================================================
