------------------------------- MODULE Visitors -------------------------------
(***************************************************************************)
(* One visitor invitation, the contacts that carry its e-mail, and their   *)
(* erasure (backend/app/features/visitor_invitations/service.py and        *)
(* compliance/service.py).  The public link is resolved and submitted by   *)
(* anybody who has it, as often as they like; a submission looks for an    *)
(* account and a contact by e-mail, writes the contact, its consent and a  *)
(* visit, and completes the invitation last.  Every write is by id: none   *)
(* looks again at what was read.  An erasure makes the contact a tombstone *)
(* and then redacts the snapshots the audit trigger took of its row.       *)
(*                                                                         *)
(* A worker is a process of the API, or a console that erases; it has one  *)
(* call under way.  A step is one call to the database, with the triggers  *)
(* it fires.  A row of a contact is what the sets below say of it.  Left   *)
(* out: resending, the uploaded identity card, profiles and memberships,   *)
(* aliases and media, which no step here reads, and edits of the e-mail or *)
(* of the consent by a broker.                                             *)
(*                                                                         *)
(* Ghost variables: stale, forgotten, revived and causes record history    *)
(* and guard nothing; calls and failures bound what happens.               *)
(***************************************************************************)
EXTENDS Integers

CONSTANTS
    Contacts,     \* ids of contacts, those not in known still to be given
    Workers,
    MaxCalls,     \* bound: calls begun
    MaxFailures,  \* bound: calls that raise and workers that end
    None          \* no contact

ASSUME ConstantsAssumption ==
    /\ None \notin Contacts
    /\ MaxCalls \in Nat
    /\ MaxFailures \in Nat

VARIABLES
    status,     \* of the invitation
    past,       \* expires_at is behind us
    mode,       \* the visitor gets an account, or only a contact
    account,    \* the e-mail has an account
    known,      \* contacts with a row
    held,       \* contacts whose row holds personal data
    listed,     \* contacts whose row has the e-mail
    erased,     \* contacts with erased_at
    consent,    \* contact: what its row says of consent
    mirrored,   \* contacts with the e-mail in contact_emails
    copied,     \* contacts with the e-mail in a snapshot of contact_emails
    trail,      \* contacts whose row has personal data in a snapshot
    visits,     \* visits registered with the invitation
    pc,
    found,      \* worker: the contact its call is about
    stale,      \* workers whose read of the link came before it was closed
    forgotten,  \* contacts whose last erasure was finished
    revived,    \* erased contacts that were written to since
    causes,     \* why a visitor may be registered twice
    calls,
    failures

link   == <<status, past, mode>>
rows   == <<known, held, listed, erased, consent, mirrored, copied, trail>>
local  == <<pc, found>>
ghosts == <<stale, forgotten, revived, causes>>
vars   == <<link, account, rows, visits, local, ghosts, calls, failures>>

Submitting == {"locating", "creating", "finding", "putting", "retrying", "consenting",
               "visiting", "completing"}
States == {"idle", "opening", "expiring", "erasing", "redacting"} \cup Submitting

TypeOK ==
    /\ status \in {"pending", "opened", "completed", "expired"}
    /\ past \in BOOLEAN
    /\ mode \in {"visitor_only", "auth_user"}
    /\ account \in BOOLEAN
    /\ known \subseteq Contacts
    /\ held \subseteq known
    /\ listed \subseteq held
    /\ erased \subseteq known
    /\ consent \in [Contacts -> {"none", "granted", "erased"}]
    /\ mirrored \subseteq known
    /\ copied \subseteq known
    /\ trail \subseteq known
    /\ visits \in Nat
    /\ pc \in [Workers -> States]
    /\ found \in [Workers -> Contacts \cup {None}]
    /\ \A w \in Workers : found[w] # None => found[w] \in known
    /\ \A w \in Workers :
         pc[w] \in {"consenting", "visiting", "completing", "erasing", "redacting"} =>
             found[w] # None
    /\ \A w \in Workers : pc[w] = "redacting" => found[w] \in erased
    /\ stale \subseteq Workers
    /\ forgotten \subseteq erased
    /\ revived \subseteq erased
    /\ causes \subseteq {"overlap", "ended", "reopened", "retried"}
    /\ calls \in 0..MaxCalls
    /\ failures \in 0..MaxFailures

\* The e-mail may be a contact's already, and may have an account.
Init ==
    /\ status = "pending"
    /\ past = FALSE
    /\ mode \in {"visitor_only", "auth_user"}
    /\ account \in BOOLEAN
    /\ known = {} \/ \E c \in Contacts : known = {c}
    /\ held = known
    /\ listed = known
    /\ erased = {}
    /\ consent = [c \in Contacts |-> "none"]
    /\ mirrored = known
    /\ copied = known
    /\ trail = known
    /\ visits = 0
    /\ pc = [w \in Workers |-> "idle"]
    /\ found = [w \in Workers |-> None]
    /\ stale = {}
    /\ forgotten = {}
    /\ revived = {}
    /\ causes = {}
    /\ calls = 0
    /\ failures = 0

-------------------------------------------------------------------------------
(* Helpers                                                                 *)

Open == status \in {"pending", "opened"}
Closed == status \in {"completed", "expired"}

Calling == calls < MaxCalls /\ calls' = calls + 1

Begin(w) == pc[w] = "idle" /\ Calling

Failing == failures < MaxFailures /\ failures' = failures + 1

Goto(w, to) == pc' = [pc EXCEPT ![w] = to]

\* The call is over and its variables are gone.
Done(w) ==
    /\ Goto(w, "idle")
    /\ found' = [found EXCEPT ![w] = None]

\* Every read of the link that is still to be acted upon is now stale.
Close(to) ==
    /\ status' = to
    /\ stale' = stale \cup {w \in Workers : pc[w] = "opening"}

\* c is written to: an erased contact should not be.
Revive(c) == revived' = revived \cup ({c} \cap erased)

\* The row of c gets the visitor's data and e-mail; the e-mail is mirrored into
\* contact_emails, unless it is there, and a snapshot of either row is taken, all
\* by triggers.  The phone goes the same way.
Write(c) ==
    /\ known' = known \cup {c}
    /\ held' = held \cup {c}
    /\ listed' = listed \cup {c}
    /\ mirrored' = mirrored \cup {c}
    /\ copied' = IF c \in mirrored THEN copied ELSE copied \cup {c}
    /\ trail' = trail \cup {c}
    /\ Revive(c)
    /\ UNCHANGED <<erased, consent>>

\* UPDATE of the contact that was found, INSERT of another if none was.
Upsert(w, c) ==
    /\ IF found[w] = None THEN c \in Contacts \ known ELSE c = found[w]
    /\ Write(c)

-------------------------------------------------------------------------------
\* Mistakes the runs must notice: a link that is opened again whatever its status,
\* a submission that does not look at it, an erasure that only marks the row, one
\* that drops it.
ResolveAny(w) ==
    /\ Begin(w)
    /\ Goto(w, IF past THEN "expiring" ELSE "opening")
    /\ stale' = stale \ {w}
    /\ UNCHANGED <<link, account, rows, visits, found, forgotten, revived, causes, failures>>
SubmitAny(w) ==
    /\ Begin(w)
    /\ Goto(w, "locating")
    /\ causes' = IF \E k \in Workers : pc[k] \in Submitting
                 THEN causes \cup {"overlap"} ELSE causes
    /\ UNCHANGED <<link, account, rows, visits, found, stale, forgotten, revived, failures>>
SoftDelete(w) ==
    /\ pc[w] = "erasing"
    /\ erased' = erased \cup {found[w]}
    /\ trail' = trail \cup ({found[w]} \cap held)
    /\ forgotten' = forgotten \ {found[w]}
    /\ revived' = revived \ {found[w]}
    /\ Goto(w, "redacting")
    /\ UNCHANGED <<link, account, known, held, listed, consent, mirrored, copied, visits,
                   found, stale, causes, calls, failures>>
HardDelete(w) ==
    /\ pc[w] = "erasing"
    /\ known' = known \ {found[w]}
    /\ held' = held \ {found[w]}
    /\ listed' = listed \ {found[w]}
    /\ mirrored' = mirrored \ {found[w]}
    /\ Goto(w, "redacting")
    /\ UNCHANGED <<link, account, erased, consent, copied, trail, visits, found, ghosts, calls,
                   failures>>

-------------------------------------------------------------------------------
(* The link: resolve_public and expire_invitation                          *)

\* A link completed or expired answers 410 and one opened before is only shown.
\* Otherwise something is written after the read.
Resolve(w) ==
    /\ Open
    /\ Begin(w)
    /\ \/ past /\ Goto(w, "expiring")
       \/ ~past /\ status = "pending" /\ Goto(w, "opening")
    /\ stale' = stale \ {w}
    /\ UNCHANGED <<link, account, rows, visits, found, forgotten, revived, causes, failures>>

\* The UPDATE to opened, by id: the lookup of the prefilled data came between.
MarkOpened(w) ==
    /\ pc[w] = "opening"
    /\ status' = "opened"
    /\ Done(w)
    /\ causes' = IF Closed THEN causes \cup {"reopened"} ELSE causes
    /\ UNCHANGED <<past, mode, account, rows, visits, stale, forgotten, revived, calls, failures>>

\* The UPDATE to expired, by id.
MarkExpired(w) ==
    /\ pc[w] = "expiring"
    /\ Close("expired")
    /\ Done(w)
    /\ UNCHANGED <<past, mode, account, rows, visits, forgotten, revived, causes, calls, failures>>

\* The broker withdraws the invitation, whatever its status.
ExpireInvitation ==
    /\ Calling
    /\ Close("expired")
    /\ UNCHANGED <<past, mode, account, rows, visits, local, forgotten, revived, causes, failures>>

TimePasses ==
    /\ ~past
    /\ past' = TRUE
    /\ UNCHANGED <<status, mode, account, rows, visits, local, ghosts, calls, failures>>

-------------------------------------------------------------------------------
(* submit_public                                                           *)

\* The status is looked at here and not again; expires_at is not looked at.
BeginSubmit(w) ==
    /\ Open
    /\ Begin(w)
    /\ Goto(w, "locating")
    /\ causes' = IF \E k \in Workers : pc[k] \in Submitting
                 THEN causes \cup {"overlap"} ELSE causes
    /\ UNCHANGED <<link, account, rows, visits, found, stale, forgotten, revived, failures>>

\* list_users gives one page, and none when it raises: an account may be missed.
FindAccount(w) ==
    /\ pc[w] = "locating"
    /\ \/ (mode = "visitor_only" \/ account) /\ Goto(w, "finding")
       \/ mode = "auth_user" /\ Goto(w, "creating")
    /\ UNCHANGED <<link, account, rows, visits, found, ghosts, calls, failures>>

\* A second account for an e-mail is refused, and the submission with a 400.
CreateAccount(w) ==
    /\ pc[w] = "creating"
    /\ account' = TRUE
    /\ IF account THEN Done(w) ELSE Goto(w, "finding") /\ UNCHANGED found
    /\ UNCHANGED <<link, rows, visits, ghosts, calls, failures>>

\* By e-mail; the filter leaves deleted and erased contacts in.
FindContact(w) ==
    /\ pc[w] = "finding"
    /\ Goto(w, "putting")
    /\ found' \in {[found EXCEPT ![w] = c] :
                      c \in IF listed = {} THEN {None} ELSE listed}
    /\ UNCHANGED <<link, account, rows, visits, ghosts, calls, failures>>

PutContact(w) ==
    /\ pc[w] \in {"putting", "retrying"}
    /\ \E c \in Contacts : Upsert(w, c) /\ found' = [found EXCEPT ![w] = c]
    /\ Goto(w, "consenting")
    /\ UNCHANGED <<link, account, visits, stale, forgotten, causes, calls, failures>>

\* The write raises, done or not, and is made again without two columns.
RetryPut(w) ==
    /\ pc[w] = "putting"
    /\ Failing
    /\ Goto(w, "retrying")
    /\ \/ UNCHANGED <<rows, revived, causes>>
       \/ /\ \E c \in Contacts : Upsert(w, c)
          /\ causes' = causes \cup {"retried"}
    /\ UNCHANGED <<link, account, visits, found, stale, forgotten, calls>>

\* The new consent replaces what the row has, an erasure's included.
RecordConsent(w) ==
    /\ pc[w] = "consenting"
    /\ consent' = [consent EXCEPT ![found[w]] = "granted"]
    /\ trail' = trail \cup ({found[w]} \cap held)
    /\ Revive(found[w])
    /\ Goto(w, "visiting")
    /\ UNCHANGED <<link, account, known, held, listed, erased, mirrored, copied, visits,
                   found, stale, forgotten, causes, calls, failures>>

\* Three rows: the interaction, its property and its visitor.
InsertVisit(w) ==
    /\ pc[w] = "visiting"
    /\ visits' = visits + 1
    /\ Goto(w, "completing")
    /\ UNCHANGED <<link, account, rows, found, ghosts, calls, failures>>

\* By id, whatever the status is by now.
Complete(w) ==
    /\ pc[w] = "completing"
    /\ Close("completed")
    /\ Done(w)
    /\ UNCHANGED <<past, mode, account, rows, visits, forgotten, revived, causes, calls, failures>>

-------------------------------------------------------------------------------
(* The contact: update_contact and erase_subject                           *)

\* A broker writes personal data into a row, a tombstone's included.
UpdateContact(c) ==
    /\ Calling
    /\ c \in known
    /\ held' = held \cup {c}
    /\ trail' = trail \cup {c}
    /\ Revive(c)
    /\ UNCHANGED <<link, account, known, listed, erased, consent, mirrored, copied, visits,
                   local, stale, forgotten, causes, failures>>

\* The row must exist; it may be a tombstone already.
BeginErase(w, c) ==
    /\ c \in known
    /\ Begin(w)
    /\ Goto(w, "erasing")
    /\ found' = [found EXCEPT ![w] = c]
    /\ UNCHANGED <<link, account, rows, visits, ghosts, failures>>

\* The row keeps its id.  Its NULL e-mail is not mirrored, so contact_emails
\* keeps the old one; the snapshot of the UPDATE holds what the row held.
Tombstone(w) ==
    /\ pc[w] = "erasing"
    /\ held' = held \ {found[w]}
    /\ listed' = listed \ {found[w]}
    /\ erased' = erased \cup {found[w]}
    /\ consent' = [consent EXCEPT ![found[w]] = "erased"]
    /\ trail' = trail \cup ({found[w]} \cap held)
    /\ forgotten' = forgotten \ {found[w]}
    /\ revived' = revived \ {found[w]}
    /\ Goto(w, "redacting")
    /\ UNCHANGED <<link, account, known, mirrored, copied, visits, found, stale, causes, calls,
                   failures>>

\* The snapshots of the contact's row lose their personal data: the procedure
\* goes through contacts and nine other tables, contact_emails and contact_phones
\* not among them.
Redact(w) ==
    /\ pc[w] = "redacting"
    /\ trail' = trail \ {found[w]}
    /\ forgotten' = forgotten \cup {found[w]}
    /\ Done(w)
    /\ UNCHANGED <<link, account, known, held, listed, erased, consent, mirrored, copied,
                   visits, stale, revived, causes, calls, failures>>

-------------------------------------------------------------------------------
(* Failures                                                                *)

\* A call raises and the request with it, or the process ends.  The visit may be
\* in, whole or in part.
Fail(w) ==
    /\ pc[w] # "idle"
    /\ Failing
    /\ Done(w)
    /\ \/ pc[w] # "completing" /\ UNCHANGED <<visits, causes>>
       \/ pc[w] = "completing" /\ causes' = causes \cup {"ended"} /\ UNCHANGED visits
       \/ /\ pc[w] = "visiting"
          /\ visits' = visits + 1
          /\ causes' = causes \cup {"ended"}
    /\ UNCHANGED <<link, account, rows, stale, forgotten, revived, calls>>

-------------------------------------------------------------------------------
Link(w) == Resolve(w) \/ MarkOpened(w) \/ MarkExpired(w)

Submit(w) ==
    \/ BeginSubmit(w) \/ FindAccount(w) \/ CreateAccount(w)
    \/ FindContact(w) \/ PutContact(w) \/ RetryPut(w)
    \/ RecordConsent(w) \/ InsertVisit(w) \/ Complete(w)

Erase(w) == (\E c \in Contacts : BeginErase(w, c)) \/ Tombstone(w) \/ Redact(w)

Next ==
    \/ \E w \in Workers : Link(w) \/ Submit(w) \/ Erase(w) \/ Fail(w)
    \/ \E c \in Contacts : UpdateContact(c)
    \/ ExpireInvitation
    \/ TimePasses

Spec == Init /\ [][Next]_vars

-------------------------------------------------------------------------------
(* Properties                                                              *)

\* A link that was completed, expired or withdrawn is open again only when a
\* visitor's page was being resolved from before, and marks it opened late.
ClosedStaysClosed ==
    [][Closed /\ ~Closed' => \E w \in stale : pc[w] = "opening"]_vars

\* However often the link is opened and submitted, the visitor comes to one visit
\* and one contact with the e-mail, and an invitation is completed by its visit,
\* also when contacts are erased or edited meanwhile; unless submissions overlap,
\* one ends after its visit, a write is retried after it was done, or a late
\* reader opens the link again.
RegisteredOnce ==
    causes = {} =>
        /\ visits <= 1
        /\ status = "completed" => visits = 1
        /\ \A c, d \in listed : c = d

\* Of a contact whose erasure was finished, the row has no personal data and is
\* not found by its e-mail, the consent is that of the erasure, and no snapshot of
\* the row in contacts holds what it held, those of the erasure and of later
\* erasures included; unless a submission or a broker wrote to the tombstone
\* since.  What other tables keep is ErasedEverywhere's.
ErasedIsForgotten ==
    \A c \in forgotten \ revived :
        /\ c \notin held \cup listed \cup trail
        /\ consent[c] = "erased"

\* What the docstring and the procedure promise: an erased contact that was left
\* alone has no personal data anywhere, the mirror of its e-mail and the snapshots
\* of that mirror included.
ErasedEverywhere == \A c \in forgotten \ revived : c \notin mirrored \cup copied
===============================================================================
