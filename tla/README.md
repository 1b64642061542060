# PropOS in TLA+

PropOS is a multi-tenant operations platform for real-estate brokerages: a
FastAPI backend on Cloud Run, Postgres behind Supabase's REST gateway, a React
client, an assistant that turns spoken notes into CRM records, and channels
(WhatsApp through Kapso, e-mail through IMAP and Resend, web push). This
directory models the parts of it whose correctness depends on the order in which
things happen. The modules are translated from the code under `src/`; TLC checks
them on small instances and TLAPS proves their main properties for every value
of the constants.

Paths below are relative to `src/backend/app/features/` unless they start with
`src/`.

## 1. What makes this system hard

* **No transactions across calls.** Every `client.table(...).execute()` is one
  HTTP request to PostgREST, hence one database transaction. A handler that
  makes five calls is five transactions, and the calls of two requests
  interleave: there are two or more workers per instance and several instances.
  Every model here therefore takes **one call to the database or to a provider
  as one step**, and a request, a job run or a webhook delivery as a process.
* **Check-then-act.** Most handlers read a row, decide, and write by id. A few
  repeat the decision as a filter of the UPDATE ("claim-first"); most do not.
* **Partial failure.** A call may fail before it is committed, or be committed
  and lose its answer. Compensation is itself a call that may fail.
* **At-least-once callers.** Cloud Scheduler, the Kapso webhook, the retrying
  client and a second browser tab all repeat calls, possibly while the first one
  is still running.
* **Dying processes.** Deploys, memory limits and request timeouts end a handler
  between two calls; nothing resumes it. Background work starts after the
  answer has been sent.
* **Several clocks.** The application stamps some columns, the database others.

## 2. Inventory

| Part | State it keeps | Operations | Hard behaviour | What makes it correct | Here |
|---|---|---|---|---|---|
| Review queue (`pending/`, `agent/tools/executors.py`) | `pending_proposals`, the CRM record, `audit_log` | accept, bulk accept, reject, reopen, undo | racing clicks, executor failing half-way, release, stale undo, two clocks | one write per stay in the queue; an acceptance has a record; duplicates have a cause | `PendingProposals`, `ReviewLedger` |
| Reminder job (`jobs/`, `reminders/`) and web push (`notifications/service.py`) | `reminders`, `notification_subscriptions` | recover, claim, send with retries, settle; delete | overlapping and dying runs, slow runs taken for dead ones | no row shared by a claim, every due reminder settled, deleted ones left alone | `Reminders` |
| WhatsApp inbound (`integrations/kapso/webhook.py`, `channels/`), inbox (`channels/router_api.py`), outbound (`notifications/whatsapp/dispatcher.py`) | `kapso_webhook_events`, `client_conversations`, `client_messages`, `client_consents` | handle a delivery; take over, grant, revoke, identify | duplicated and reordered deliveries, work after the 200, opt-out against opt-in, human against model | one answer per message, an opt-out stands, no stray threads | `ClientAgent` |
| E-mail sync (`email_sync/`) | `email_accounts` (cursor), `email_threads`, `email_messages`, `contacts`, `interactions` | poll the mailbox | cursor against failures, overlapping runs, mails that can never be stored | no mail passed over, every storable mail stored, no duplicates | `EmailSync` |
| Opportunities (`opportunities/`, the pipelines and checklist templates of `settings/`) | stage, status, transitions, checklist, receivables | update, and all it spawns; edit or delete a pipeline or a template | validated read then unfiltered update; catalogues replaced by DELETE and INSERT; checklist and commission created on first sight | declared moves only, a won deal is booked once, an agreed deal has its file | `Deals` |
| Visitor invitations (`visitor_invitations/`) | invitation status, account, contact, visit | resolve, submit, expire, withdraw | one status column written by id in four places; some eight writes before the last one | a closed link stays closed, one registration | `Visitors` |
| Compliance (`compliance/`) | consents, tombstones, snapshots of the audit trail | record consent, erase | an erasure of several calls against submissions, edits and other erasures; triggers | erased means erased everywhere | `Visitors`, the erasure and the consent of a submission |
| Documents (`documents/service.py`, `storage.py`) | rows of versions, objects | create, add, restore, choose a version | objects before rows, clean-up by path, concurrent version numbers | a row has its objects, the newest version is current, no orphans | `Documents` |
| Active tenant and identity caches (`src/backend/app/core/`, `memberships/`, `users/`) | profile snapshot, memberships, per-process caches | request, switch, edit or end a membership, edit or disable a user | snapshot against source, invalidation in one process only | the snapshot copies an active membership, no cached answer is older than the TTL | `AccessControl` |
| Share links and portal (`documents/share_service.py`, `portal_service.py`) | links and their history | create, re-point, revoke, read | one-row writes | | not modelled |
| Spend cap and rate limiter (`agent/budget.py`, `agent/rate_limiter.py`) | cached spend, buckets | check, record | estimates, refreshed lazily | | not modelled |
| Imports (`imports/`) | rows of a file | preview, commit | double commit | | not modelled |
| Assistant (`agent/`) | none of its own | chat, classify, resolve | calls to a language model | what it writes goes through the dispatcher and the review queue | `PendingProposals`, its last step |
| UF, reporting, one-row CRUD, HTTP wiring, web client | rows | read, write | none beyond the database's | | not modelled |

How the parts interact: the assistant and the WhatsApp extraction write
`pending_proposals`; the review queue turns them into CRM rows, among them
reminders, which the reminder job delivers through web push; WhatsApp and e-mail
both file contacts that the rest of the CRM reads; the visitor link files them
too, and the erasure takes them back; every request passes through the identity
caches and the active tenant first; brokers act on the same rows through the
API. There are no in-process callbacks: everything meets in the database, so
that the state requests share is tables, and in `AccessControl` the caches of a
process; all other variables belong to one request.

`PROJECT.json` lists every component and every hazard with its line.

## 3. Modules

| Module | What it is |
|---|---|
| `ReviewLedger` | abstract: a proposal enters the queue in numbered stays, each written at most once; stay 0 is the assistant's own attempt |
| `PendingProposals` | the review queue; states that it implements `ReviewLedger` |
| `PendingProposalsProofs` | its theorems, the implementation included |
| `Reminders`, `RemindersProofs` | the reminder job, its theorems, among them that it implements `Lease` |
| `ClientAgent`, `ClientAgentProofs` | WhatsApp inbound, inbox and outbound; theorems, among them that it implements `Correspondence` |
| `EmailSync`, `EmailSyncProofs` | the mailbox poll; theorems, among them that it implements `Intake` |
| `AccessControl`, `AccessControlProofs` | memberships, the snapshot in the profile, the caches; theorems |
| `Deals`, `DealsProofs` | a deal, its pipeline, its commission and its file; theorems |
| `Documents`, `DocumentsProofs` | a document, its versions and objects; theorems, among them that it implements `VersionLog` |
| `Visitors`, `VisitorsProofs` | an invitation, the contacts it files, their erasure; theorems |
| `Lease` | abstract: who may send a reminder, and that it settles once |
| `Correspondence` | abstract: events claimed, messages received and answered once, and an opt-out that stands |
| `Intake` | abstract: mails stored once, leads shown or given up, a cursor with nothing missing behind it |
| `VersionLog` | abstract: an append-only list of distinct files with a current one |
| `MC*` | instances for TLC: constants, symmetry |

In every module `pc` says which call a process makes next, ghost variables are
named in the header and appear in no guard, and an operator that states a
*mistake* ("Mistakes the runs must notice") is used by no action: it is the
mutated form under which a run must fail.

### 3.1 PendingProposals

`kind`, `status`, `reviewedAt` and `createdRow` are columns of
`pending_proposals`. `effect[r]` is what became of the record that the executor
run by request `r` wrote: written, removed by the queue, or deleted by a person.
`audit` and `now` are `audit_log` and the database clock. What a record holds is
abstracted, and with it the image an undo restores.

| Code | Action |
|---|---|
| `_create_proposal`, the INSERT | `Propose` |
| `dispatch` at level EXECUTE; its return; its fallback to a proposal | `Dispatch`; `Executed`; `FallBack` |
| `accept_proposal`, service.py:231-262 | `AcceptRead` |
| the filtered UPDATE, 263-281 | `AcceptClaim` (`Claimable`) |
| the executor's first write | `Execute` |
| its follow-up rows and `_rollback_on_failure` | `Attach` |
| the release after a failure, 294-301 | `Release` (`Releasable`) |
| the last UPDATE, 303-325, no filter on status | `Finalize` |
| `reject_proposal`, no filter on status | `Reject` |
| `reopen_proposal` | `Reopen` |
| `undo_proposal`, undo.py | `UndoRead`, `UndoCheck`, `UndoReverse`, `UndoFlip` (`Flippable`) |
| a person edits the record, or deletes what the assistant created | `Edit`, `Delete` (`Live`) |
| the instance goes away | `Crash` |

A turn of the assistant whose policy says EXECUTE runs the executor by itself
(`Direct`: it has no `stamp`), through the same `Execute` and `Attach` as an
accept. When the executor raises, the action is queued after all, also when its
write was committed: a proposal may start its life with a record already there.

A *stay* is a period in the queue: it starts when the proposal is created,
released, reopened or undone. `stay` and `claimStay` count them. Two causes of a
second record are kept apart: `overruled`, a reject that was applied to an
accepted proposal, which takes no race; and `overtaken`, an undo that flipped an
acceptance it had not read. The three kinds of executor are told apart because
undo treats them differently: one that creates a record, one that updates a
record, and one that attaches photos to a record and so names a row it did not
create.

Left out: which fields an override changes, the statuses `superseded` and
`expired` that no code writes, and the refusal of undo for a record with no
before image, which an immutable audit log rules out.

### 3.2 Reminders

`Runners` are the calls of the job that may be active at once; a name that ends
serves a later fire. `stale` is "updated_at older than STUCK_AFTER_MINUTES",
`lost` remembers which rows a recovery took from a runner that was still alive.

| Code | Action |
|---|---|
| `_recover_stuck` | `RecoverStuck` |
| `_claim_due`, select | `SelectDue` |
| `_claim_due`, filtered UPDATE | `ClaimDue` |
| `_send_with_retries` and `send_push` | `PushReturns`, `PushRaises` |
| the outcome, written by id | `SettleSent`, `SettleFailed` |
| `create_reminder`, `delete_reminder` | `Create`, `Delete` |
| `save_subscription`, `delete_subscription` | `Subscribe`, `Unsubscribe` |
| death, time, stuck time | `Crash`, `Tick`, `Age` |

One call of `send_push` is one step: a device that comes or goes while it runs
is sent what it would have been sent had it come just after or gone just after.
The moment of the claim stands for the clock value the runner
took when it started. A reminder may be created when it is due already, and
`CANCELLED` is a status nothing writes.

### 3.3 ClientAgent

One phone number, one contact that may or may not be on file, any number of
threads. A *delivery* is one webhook call together with the background task it
starts.

| Code | Action |
|---|---|
| `_persist_event`, or the answer "duplicate" | `PersistEvent`, `AnswerDuplicate` |
| a signature that does not verify: the row is inserted, key and all, before the 401 | `RefuseSignature` |
| the dedupe select of `handle_inbound_client` | `CheckDuplicate` |
| `_find_contact_by_phone` | `FindContact` |
| `_ensure_conversation`, select and insert | `FindThread`, `OpenThread` |
| the insert of the message | `StoreInbound` (`Storable`) |
| `last_message_at`, then what the message asks for | `TouchThread` |
| `_record_opt_out` | `ReadOptOut`, `WriteOptOut` |
| `_record_inbound_consent` | `ReadConsent`, `WriteOptIn` |
| the model, the guards, the hand-off | `Generate` |
| `send_freeform_to_conversation` | `ReadThread`, `CheckConsent` (`HasConsent`), `RecordOutbound`, `Send`, `ConfirmSent` |
| an exception or the end of the instance | `Fail` |
| inbox: `update_conversation`, `upsert_consent`, `revoke_consent`, `link_conversation_contact` | `PatchThread`, `ReadGrant`/`WriteGrant`, `Revoke`, `ReadLink`/`FileNumber`/`LinkThread` |

`RefuseSignature` is also what an insert leaves that was done and whose answer
was lost: the key is taken and nobody works. Abstractions: every event carries a
key (one without is deduplicated by nothing but its message); a batch of
messages stands for its first `external_message_id`, which is what the code
dedupes by; the 24-hour window is always open, since the message being answered
was just stored; calls of the model write nothing; `processed_at` and
`process_error` are forensic; a consent row never has both of its dates empty,
as no writer leaves them so. `mode` merges `ai_enabled` and `status`: answered
by the model, taken by a broker, or flagged by a guard.

Left out: messages of internal users (`agent_adapter.py`), routing to a tenant,
the proposals extracted from a message, a broker's own sends, templates,
delivery statuses, closed and archived threads.

### 3.4 EmailSync

`Mailbox[u]` is the message with UID `u`; `stored` is `email_messages` by
`message_id`; `contacts`, `threads` and `mirrors` are pairs of what the row is
about and the runner that wrote it. `from`, `at`, `last`, `reached` and
`blocked` are the local variables of `_sync_account_blocking` (`last_uid`, the
loop variable, the end of the batch, `committed_uid`, `blocked`).

| Code | Action |
|---|---|
| `_ensure_account` | `Start` |
| the IMAP search and the cap | `Search` (`BatchEnd`) |
| the fetch | `Fetch` |
| `_match_or_create_contact` | `MatchContact` (`Filed`), `FileContact` |
| the thread | `FindThread` (`Opened`), `OpenThread` |
| the insert of the message and its three outcomes | `StoreMessage` (`Insertable`) |
| `_log_lead_interaction` | `MirrorLead` |
| the last UPDATE | `WriteCursor` (`ReachedAfter`) |
| an exception outside the guarded block, or death | `Abort` |

Two mails may carry one `message_id`. UIDs are numbered without gaps, because
only their order matters. A person with a phone or an address is looked up before
a contact is inserted; of one in `NameOnly` a mail gives the name only, and the
code inserts a contact with every mail and every retry, as the model does. The
participant and the property of an interaction are
written in the same step as the interaction, with the outcome "only part of it
was written" among the failures. Left out: mails removed from the mailbox, a
renumbered mailbox (`uidvalidity` is stored nowhere and read nowhere), the
creation of the account, and persons that a broker deletes or merges.

### 3.5 AccessControl

One user, several workspaces. `member` is `tenant_memberships`, `profile` the
row of `profiles`, whose tenant and role copy a membership and are trusted by
`resolve_active_tenant` when they agree with the request. `cache[w]` is the
entry of `_profile_cache` in process `w`, with the ticks left to its deadline;
its fields `lag` and `old` are ghosts. A role stands for role and scope. `Init` is
what `create_user` leaves: a profile, on or off, that copies a membership, or one
whose memberships were not inserted, which is logged and swallowed.

| Code | Action |
|---|---|
| `get_current_user`, `resolve_active_tenant` with a cached profile, `POST /memberships/activate` | `Ask` (`Settled`) |
| `get_user_profile`, the two reads and the put | `LoadProfile`, `PutProfile` |
| `_validate_membership`, the check of `activate` | `Validate` (`Joined`) |
| the UPDATE of `profiles` and the invalidation | `WriteSnapshot` |
| `MembershipService.add` | `AddMembership` |
| `update`, `delete`: the membership | `EditMembership` |
| `_sync_profile_snapshot` | `ReadSnapshot`, `MatchMembership` (`Candidates`), `WriteSnapshot`, `CloseProfile` |
| `UserService.update_user`, its two writes | `PatchUser`, `PatchMembership` |
| `disable_user`, `enable_user` | `SetActive` |
| an exception or the end of the process; time | `Fail`, `Tick` |

`Tick` ages every cached profile at once: one clock, whatever the process. An
entry that reaches its deadline is dropped, which is what `_fresh` makes of it.
Left out: the cache of verified tokens (the same form, with one writer), the
permissions derived from a role, the steps of creating a user, eviction when a
cache is full (a further way to lose an entry, as the end of the process is).

### 3.6 Deals

`deal` is the row of `opportunities` (stage, status, whether it has a value),
`rules` is `pipeline_transitions`, `template` and `items` the default checklist
template, `receivables` counts the transactions that name the deal, `checklist`
is its file: none, without items, or with them. `patch`, `from` and `payload`
are locals of a handler.

| Code | Action |
|---|---|
| `update_opportunity`, the read | `ReadDeal` |
| `assert_allowed` | `CheckMove` (`Legal`) |
| the UPDATE, by id | `WriteDeal` (`Given`, `Follow`) |
| `_spawn_commission_receivable` | `FindReceivable`, `Book` |
| `_instantiate_checklist` | `FindChecklist`, `PickTemplate`, `CreateChecklist`, `ReadItems`, `FillChecklist` |
| `_replace_transitions`, DELETE and INSERT | `ClearRules`, `InsertRules` (`Collides`) |
| `_replace_items`, DELETE and INSERT | `ClearItems`, `InsertItems` |
| `delete_pipeline`, `delete_checklist_template` | `DeletePipeline`, `DeleteTemplate` |
| an exception or the end of the process | `Fail` |

Two rows of transitions with `from_stage` NULL do not collide in Postgres and
two others do; `Collides` says so. Left out: `requires_human`, as no caller
passes `by_agent`; `deleted_at`, which neither the update nor the search for a
commission reads; moving a deal to another pipeline; the amount booked.

### 3.7 Documents

One document. `versions[n]` is the content the row of version `n` names,
`pictured` the versions whose row names camera shots, `current` the number of
`current_version_id`. `blobs` holds the contents in storage, which are stored
under their hash, and `shots[n]` the content whose shots are stored under number
`n`.

| Code | Action |
|---|---|
| `create_document_with_first_version` | `Create`, then as below, with `InsertDocument` |
| `add_version`, `restore_original_from_version` | `AddVersion`, `RestoreOriginal` |
| the search for the hash, and for the last number | `FindSame`, `ReadLast` |
| the uploads | `UploadContent`, `UploadShots` |
| the INSERT of the version | `InsertVersion` (`Storable`, `Store`) |
| the UPDATE of `current_version_id` | `PointCurrent` |
| an exception, by where it is raised | `RaiseEarly`, `RaiseShooting`, `RaiseInserting`, `RaisePointing` |
| the clean-up, and a deletion in it that fails | `CleanUp` |
| `set_current_version` | `MakeCurrent` |
| the end of the process | `Stop` |

The raw and the normalized object of a content are one object, and so are the
shots of a version: each pair is written and deleted together. Left out:
a `source_version_id` that names no version, which raises after the uploads and
outside the `try`, so that its objects stay without any failure of the
infrastructure (`RaiseEarly` has that outcome, with the cause `ended`);
thumbnails, which are written after the row and never read back by these
operations; assignments and share links; the deletion flag.

### 3.8 Visitors

One invitation and the contacts that may carry its e-mail. A contact's row is
what `known`, `held` (personal data), `listed` (the e-mail), `erased` and
`consent` say of it; `mirrored` is `contact_emails`. `trail` and `copied` are the
snapshots in `audit_log`, of the row and of its mirror. All three are written by
triggers in the step of the write that fires them, and an erasure redacts
`trail` only. The phone and `contact_phones` go the same way.

| Code | Action |
|---|---|
| `resolve_public`, the read and what follows it | `Resolve`, `MarkOpened`, `MarkExpired` |
| `expire_invitation`; the clock | `ExpireInvitation`, `TimePasses` |
| `submit_public`, the check of the status | `BeginSubmit` |
| the account | `FindAccount`, `CreateAccount` |
| `_upsert_contact`, with its second try | `FindContact`, `PutContact`, `RetryPut` (`Upsert`, `Write`) |
| `record_consent` | `RecordConsent` |
| the visit and the last UPDATE | `InsertVisit`, `Complete` |
| `ContactService.update_contact` | `UpdateContact` |
| `erase_subject`: the row, the snapshots | `BeginErase`, `Tombstone`, `Redact` |
| an exception or the end of the process | `Fail` |

A call that raises may have been committed. The three inserts of a visit are one
step, with the outcome "only part of it was written" among the failures: a visit
counts when its first row is in. Left out: resending, which writes only a date;
the upload of the identity card; the profile and the membership a new account
gets; aliases and media, which the erasure clears by further calls that nothing
here reads; edits of the e-mail or of the consent by a broker.

## 4. Runs

A *pass* run shows that its properties hold in every behaviour of the instance;
a *violation* run shows that a statement made in the repository is false of the
code, and its last state is the disagreement.

| Run | Shows |
|---|---|
| `pending_safety` | five requests on one proposal, one of which may be the assistant's own attempt: one accept per stay; no acceptance without a record unless its accept is running or dead; two live records only through a reject that overrode an acceptance, an undo that overtook one or an executor that failed without cleaning up; no accepted proposal names a record the queue took back; the queue implements `ReviewLedger` |
| `pending_undo_refusal` | undo.py:16-18 against the code: undo refuses a record nobody edited |
| `reminders_safety` | two runners: the job implements `Lease`, so a row is shared only after a recovery and settled for good; a push is repeated only after a recovery or an exception; deleted reminders stay dropped; every due reminder is settled |
| `client_agent_safety` | two deliveries, three events, one broker: a message is answered once; the channel implements `Correspondence`: a claimed event loses its message only to an error or to a refused call that took its key, nothing is answered before it is stored, and only a broker ends an opt-out; a person on file who opted out is not answered; stray threads need an overlap |
| `client_agent_acknowledged` | the reply to an opt-out against the code: a number that is not on file is answered again |
| `email_sync_safety` | two runs, one failure: the cursor covers only stored mails; the job implements `Intake`: a mail is stored once, a lead waits for its interaction once and has one; persons who can be looked up are filed twice only by an overlap; a lead misses the timeline only by its own failure; every storable mail within a batch of the refused ones is stored |
| `access_control_safety` | two processes, two workspaces: the snapshot copies an active membership unless one of four causes is on record, a cached profile is no older than the TTL and its read, an edit does not move the user |
| `deals_safety` | two processes on one deal and its catalogues: declared moves only, whole sets of transitions, a won deal booked, and once (`CommissionRight`), an agreed deal with its file |
| `documents_safety` | two processes, two files: what a version names is in storage, the newest version ends up current, a failure leaves no orphan, and the versions implement `VersionLog` |
| `documents_cleaned` | service.py:552 against the code: the clean-up of a refused upload deletes the objects of another version |
| `visitors_safety` | two processes on one link and its contacts: a closed link is opened again by late readers only, one visit and one contact, the row of an erased contact and its snapshots are forgotten |
| `visitors_erased` | the docstring of the erasure against the code: the address stays in `contact_emails` and in the snapshots of that table |

Several invariants name the causes that excuse them (an overlap, a process that
ended, a late reader). Each cause is recorded by the one step that makes it
true, and a mistake in the code that breaks the invariant without that cause is
what the run looks for.

### Bounds, and why they are enough

* `pending_safety`: one proposal, because proposals share no row but the record
  of an update, whose writers the run has anyway (`Edit`, `Delete`); five
  requests, the length of accept, reject, reopen, accept with an undo in flight;
  the application clock is one write ahead, so that undo finds the accept's own
  write not newer and a later edit newer (`pending_undo_refusal` has equal
  clocks, with which it refuses both). A kind is chosen at the start among all
  three.
* `reminders_safety`: two runners are a pair that overlaps, two reminders with
  `Batch = 1` make the batch a limit, two attempts are a retry, one death leaves
  a batch behind, one device is enough to be sent twice, and the second user has
  none. `MaxCrashes` bounds deaths; `pushed` counts to two.
* `client_agent_safety`: two deliveries are a pair that overlaps; three events
  give two deliveries of one message and one of another, in any order; one
  broker interleaves with both, and acts without a bound.
* `email_sync_safety`: four mails are a lead, one that is refused for good, of
  somebody with only a name, a second lead of the first person, and one that
  `Batch = 2` keeps out of every search: the cursor stays before the refused
  mail, and each batch is that one and its successor. `StorableStored` demands
  the third mail and not the fourth, which is starved in the model as in the
  code (with a batch of one even the third would be). Two runners;
  `MaxFailures = 1` of any kind.
* `access_control_safety`: two workspaces are the one a user is in and another,
  two roles an old and a new one, two processes the one an edit invalidates and
  one it does not reach; `MaxChanges = 2` is an edit during an edit or a switch
  during an edit; `TTL = 1` and `MaxLag = 1` make every deadline bite.
* `deals_safety`: three stages, of which one is the agreement, with a set of
  transitions that allows a move and one that does not; `MaxCalls = 4` with two
  processes is a pair of updates against a pair of edits.
* `documents_safety`: two files are one that collides and one that does not,
  three versions are the first, the one restored from and the one added, five
  calls reach a restore that overlaps an upload. `documents_cleaned` needs no
  failure: the UNIQUE of the hash is enough.
* `visitors_safety`: three contacts are one on file and one for each of two
  submissions that overlap; five calls are two submissions, an opening, an
  erasure and an edit. `visitors_erased` needs one erasure.

In the four last pass runs `MaxFailures = 1`: one call that raises, committed or
not, or one process that ends, at any step.

Symmetry is used for requests, deliveries and workers (in the last four modules
for their data too), in runs with no liveness property. `CHECK_DEADLOCK` is off
for the review queue and the four last modules, where the bounded number of
calls may be used up; the others keep going or end in a stuttering choice.

### Fairness

Only `Reminders` and `EmailSync` state liveness: a request that dies is not
resumed by anything, so nothing can be promised of it, and the other modules
state safety only. `Reminders` assumes weak fairness of each runner (Cloud
Scheduler keeps firing, and a call that does not die goes on) and of `Age` (time
passes for a row nobody writes). Nothing is assumed of `Crash`, `Delete` or
`Tick`. `EmailSync` assumes weak fairness of each runner; its failures are
bounded, and neither `Abort` nor `Arrive` is fair. The scheduler entry of the
e-mail job is not created in the present deployment (`docs/cron-jobs.md`); the
liveness statement is about the job as it is meant to run.

## 5. Proofs

Each `*Proofs` module proves, for every value of the constants that satisfies
the module's assumptions, the type invariant and the properties below. No other
assumption is made, and no fairness is used.

* **PendingProposals.** `ClaimOncePerStay`, `NoPhantomAcceptance` and
  `DuplicateHasCause` are not inductive. The invariant `IInv` adds: a claim
  carries a stay no later than the current one, and a claim of the current stay
  means that the proposal is no longer pending (`ClaimInv`); one turn takes an
  action up, and the proposal appears only when that turn gives up (`AloneInv`);
  what `effect` says at each `pc` (`RowInv`); an undo that is about to flip has
  seen to it that the record it read is gone (`UndoInv`); and, for a proposal
  nothing overruled or overtook, where a live record can be (`ClearInv`), from
  which the theorem on duplicates follows. `AcceptedRowLives` rests on
  `NamedInv`: the record a proposal or an undo names was created by an accept of
  the same proposal that has answered, so that only an undo of that proposal
  takes it back; a deletion by a person changes what the record is and none of
  the names. `ImplementsLedger` maps every step to a step of the ledger or a
  stutter: `Execute` is the only one that writes, and `ClaimOncePerStay` gives
  it a stay of its own.
* **Reminders.** `OneOwner` needs that a row a runner holds, and no recovery
  took, is not PENDING (`OwnerInv`): so no claim can take it.
  `RepeatHasCause` adds that once a device was sent a reminder that is neither
  recovered nor attempted anew, the row is out of the queue and its one holder
  is about to write that it was sent (`PushInv`). `DroppedStaysDropped` follows
  action by action from the types. `ImplementsLease` needs `OwnerInv` (an
  outcome that lands on a row in the queue comes from a runner that lost it) and
  `HandsInv`: a runner that claims holds nothing, and what it settles it holds.
  `SettledIsFinal` is carried over from `Lease`.
* **ClientAgent.** `AnsweredOnce` rests on `StoreInv`: two deliveries past the
  insert of the inbound row carry different messages. `SilenceKept` rests on
  `QuietInv`: while a delivery counted as quiet is on its way, the contact is
  known and opted out, the delivery found it, and its thread carries the
  contact, so that the dispatcher's check applies. `StrayThreadsOverlap` rests
  on `StrayInv`: a delivery that is about to open a thread nobody identified
  saw only threads of the contact, and so did the opener of every such thread.
  `OptOutStands` is an action property, proved by cases.
  `ImplementsCorrespondence` rests on `StoreInv` (a message is received when no
  other event brought it, and answered once) and on `EventInv`: deliveries at
  work, or failed at work, have claimed events of their own, so that the end of
  one closes its event and no other; a call that is refused claims an event that
  is never open. `ClaimsAreAccounted` is carried over from
  `Correspondence`.
* **EmailSync.** `CursorCovers` rests on `CoverInv`: every number a runner may
  still write into the cursor covers only stored mails, and so does its place in
  the batch while nothing was left behind. `MirroredOnce` rests on `OnceInv`: at
  most one runner is about to mirror a message, and only one that is not
  mirrored. `DuplicatesOverlap` rests on `MetInv`: whoever filed what a runner
  is about to file worked at the same time (`FilersMet`, of the persons who can
  be looked up; `OpenersMet`), and those at work together have met (`AllMet`).
  `LeadReachesTimeline` is inductive. `ImplementsIntake` uses `CoverInv` where
  the cursor is written and `OnceInv` where a lead leaves the wait: no other
  runner is about to mirror it. `WaitsOnce` is carried over from `Intake`.
* **AccessControl.** `StaleBounded` rests on `AgesInv`, the same bound for the
  profile a worker is still loading. `SnapshotHonest` and `EditKeepsWorkspace`
  rest on `KnowsInv`: a worker that was not disturbed since its read holds what
  is still true, so that its write is a copy of an active membership; `PatchInv`
  adds what holds between the two writes of `update_user`.
* **Deals.** `MovesDeclared` rests on `KnowsInv`: a worker not overtaken knows
  the stage it checks, and has checked its move against what was saved last.
  `RulesWhole` needs that one edit at a time is between its DELETE and its
  INSERT while nothing tore them (`RulesInv`); `BookedOnce` that a worker about
  to book and not overtaken saw no receivable (`BookInv`); `AgreedDealHasFile`
  that a file without items has somebody about to bring them (`FileInv`).
  `WonIsBooked` is inductive; the two make `CommissionRight`.
* **Documents.** `VersionsWhole` rests on `WholeInv`: workers that met nobody
  hold a content and a number apart from those of all others, and what they
  uploaded is still there. `NewestIsCurrent` rests on `NewestInv`: numbers have
  no gaps, and a worker about to point at its version, with none stored after
  it, has the last one. `NoOrphans` is inductive. `ImplementsLog` rests on
  `LogInv`: the numbers of the rows, and those below a number a worker is about
  to use, have no gaps (`NoGaps`; `Fresh` starts it), and whoever makes a version
  current points at a row that is there (`RowThere`), which stays because nothing
  deletes one. `HistorySoundHolds` and `HistoryKeptHolds` are carried over from
  `VersionLog`.
* **Visitors.** `ClosedStaysClosed` rests on `LateInv`: once the link is closed,
  everybody about to mark it opened has read it before. `RegisteredOnce` rests
  on `OnceInv`: without a cause there is one submission at a time (`Single`),
  the visit is in exactly while it is completing or the link is closed
  (`VisitInv`), and the contact found is the only one listed (`ListInv`).
  `ErasedIsForgotten` rests on `GoneInv`: an erased row nobody wrote to is
  empty, so no later snapshot of it holds anything. It says nothing of the mirror
  and its snapshots, of which the violation run shows the opposite.

Five components thus implement an abstract specification that knows nothing of
their calls: `ReviewLedger`, `Lease`, `Correspondence`, `Intake`, `VersionLog`.
Each implementation theorem has one lemma for the initial states and one for a
step, which maps every action to a step of the abstract specification or to a
stutter under the substitution the component's module states (a row's `status`
to its phase, a `pc` to the event that is open, and so on). What the abstract
specification keeps can then be read off it without the protocol, and the
theorems "carried over" are proved from `Next` of the abstract module alone.
The abstract modules have no counterpart line by line in the code; each is the
promise the component as a whole makes.

`OneOwner`, `MirroredOnce`, `OptOutStands`, `WonIsBooked` and `BookedOnce` are
theorems that no run lists by itself: the runs check `LeaseSpec`, `IntakeSpec`,
`CorrespondenceSpec` and `CommissionRight`, in which they are contained or next
to which they stand.

Model-checked and not proved: the liveness properties `DueSettles` and
`StorableStored`, which are out of the prover's reach. Every other property of a
passing run is a theorem.

## 6. Findings

Each is the last state of a violation run; `PROJECT.json` quotes the line.

1. Undo refuses almost every proposal: `reviewed_at` is taken before the
   executor's own audited write, which then counts as somebody's later edit.
2. An opt-out from a number that is not on file is acknowledged and not kept.
3. Of two uploads of one file to a document, the second is refused by the
   UNIQUE of the hash, and its clean-up deletes the objects the first one's
   version names.
4. Erasing a contact leaves its e-mail in `contact_emails` (and its phone in
   `contact_phones`): the trigger that mirrors them inserts and never deletes.
   The snapshots of those rows in the audit log stay as well, since the
   redaction goes through a list of tables that names neither.

Other behaviours the models contain, and which the properties name as causes or
leave outside their claim. The first list contradicts a comment, a doc or a test
of the repository: the properties hold of the code as it is, and do not show that
what those say is true.

* Reject accepts any status, so that accept, reject, reopen, accept writes twice
  with no race at all (`overruled`). `reopen_proposal` says "Nothing was written
  when it was rejected ... there is nothing to reverse"
  (`pending/service.py:146-147`).
* A slow reminder run and the run that recovers its rows both send them (`lost`).
  `jobs/service.py:25-26` takes a row of that age for one that "lost its runner",
  and `docs/cron-jobs.md:56` calls the jobs idempotent.
* A push whose device fails is logged and counted as sent: "must not burn the
  reminder", says `jobs/service.py:27-28` of such failures.
* A broker's takeover does not stop the reply that is being generated, which
  `client_agent.py:10-11` rules out.
* A delivery whose event was claimed by a call that was refused, whose answer was
  lost, or that died, is answered as a duplicate and its message is lost
  (`refused`, `raised`). `webhook.py:62` has every duplicate "already processed".
* A mail without a readable date keeps the cursor before it, and the mails
  further on than a batch are never fetched (`Within` leaves them out).
  `sync.py:223-226` has every UID after a failure retried on the next run.
* A lead whose run ends between the message and its interaction never reaches
  the timeline (`dropped`), where `test_lead_interaction.py:1` has every portal
  lead on it.
* A switch of workspace under way while the membership ends writes the ended
  membership back into the snapshot (`late`), and an edit that ends between its
  writes leaves it there (`ended`). `auth_cache.py:46-49` calls this "closed
  structurally by `MembershipService._sync_profile_snapshot`".
* A user whose memberships could not be inserted has a snapshot that copies none
  (`unjoined`), where `tenant.py:101-104` knows two writers of that column, which
  both validate the membership first.

Of the others nothing in the code promises better:

* a person of whom a mail gives only a name is filed again with every mail and
  every retry (`NameOnly`);
* a record that a person deletes on its own screen leaves its proposal accepted;
* a stage move is checked against a row and transitions that may have changed
  when it is written (`late`, `torn`), and two updates to WON at once both book
  (`overlap`);
* a page of the visitor link that is still loading opens a link that was
  completed or withdrawn meanwhile (`stale`), and two submissions at once
  register the visitor twice (`overlap`);
* the guard for quiet hours reads a column `_find_contact_by_phone` does not
  select, so it never applies.

## 7. Not modelled

* **Share links and portal.** Most writes are one row; of two edits of a link the
  later one wins, and a revoked link is refused by the read that serves it.
  `promote_upload` is more: it creates a document (by the operation `Documents`
  models), assigns it, deletes the uploaded object and then marks the upload. Two
  at once make two documents, and one that fails before the last call leaves the
  upload pending with its object gone. Nothing modelled reads the upload.
* **Spend cap and rate limiter.** Best effort by design: amounts are estimates,
  turns under way when the cap is reached go on, the windows live in one process.
* **Imports.** Two commits of one import insert its rows twice. Nothing stands
  between them, so there is no protocol to state a property of.
* **Creation of users.** Several tables and the identity provider, compensated by
  one deletion when the profile fails. `AccessControl` starts from its results, a
  profile without memberships included, which every later request relies on; the
  rows of e-mails and preferences, best effort too, decide nothing there.
* **Delivery statuses of WhatsApp.** They are applied in the order they arrive
  to a column nothing decides on.
* **Thumbnails, identity cards, aliases and media, retention sweep, revocation
  by a contact, resending of invitations.** Single writes after the fact, or
  batch deletions by date, which no modelled operation reads.
* **Assistant.** Prompting, parsing and SQL generation around calls to a
  language model. What it wants written enters the review queue, which is
  modelled, or is written at once by the dispatcher, which is modelled too.
* **Reporting, tasks, notes, campaigns, publications, catalogues other than
  pipelines and checklists.** Read-only queries and one-row writes.
* **HTTP platform, web client.** Wiring and views. Their effect, repeated and
  overlapping requests that may die, is in every model. The client is by far the
  larger part of the repository's lines, which is why the share of it the
  modules translate is small: what they cover is the part whose correctness
  depends on an order of steps.

The instances are kept small enough that a run ends in a few minutes. Where one
run can answer several questions it does: a component has one run for all its
properties, and a run of its own only for a statement of the repository that the
code contradicts.

## 8. Running

    tlc -workers 2 -config MCPendingProposals.cfg MCPendingProposals.tla
    tlapm PendingProposalsProofs.tla

The configurations are `MC<Module>.cfg` for the pass run of a component and
`<Module><Name>.cfg` for a violation run, which uses the same `MC` module.
