------------------------------ MODULE EmailSync -------------------------------
(***************************************************************************)
(* The job that copies a mailbox into the CRM                              *)
(* (backend/app/features/email_sync/sync.py): read the cursor, list the    *)
(* mails above it up to a cap, file each one (contact, thread, message,    *)
(* and for a portal lead an interaction of the timeline), and move the     *)
(* cursor over the contiguous run of mails that are stored.                *)
(*                                                                         *)
(* A runner is one call of the job; a second fire may overlap a slow one,  *)
(* and a runner may end at any point.  A step is one call to the database  *)
(* or to the IMAP server.  The account row exists and the mailbox is       *)
(* numbered 1, 2, ... in the order of arrival.                             *)
(*                                                                         *)
(* Ghost variables: met and dropped record history and guard nothing;      *)
(* failures bounds what goes wrong in a behaviour.                         *)
(***************************************************************************)
EXTENDS Integers

CONSTANTS
    Count,        \* number of mails
    Messages,     \* what a mail can be, by message_id
    Mailbox,      \* Mailbox[u]: the message with UID u
    SenderOf,     \* SenderOf[i]: the person i is about, or None
    NameOnly,     \* persons of whom a mail gives no phone and no address
    RootOf,       \* RootOf[i]: the message id that names the thread of i
    Leads,        \* the messages classify_email takes for portal leads
    Undated,      \* those without a readable Date: sent_at is None
    Runners,
    Batch,        \* BATCH_CAP
    MaxFailures,  \* bound: calls that fail in passing, and runners that end
    None

Uids    == 1..Count
Persons == {SenderOf[i] : i \in Messages} \ {None}
Roots   == {RootOf[i] : i \in Messages}

ASSUME ConstantsAssumption ==
    /\ Count \in Nat
    /\ Mailbox \in [1..Count -> Messages]
    /\ NameOnly \subseteq Persons
    /\ Leads \subseteq Messages
    /\ Undated \subseteq Messages
    /\ Batch \in Nat \ {0}
    /\ MaxFailures \in Nat

VARIABLES
    arrived,   \* the mails 1..arrived are in the mailbox
    cursor,    \* email_accounts.last_seen_uid
    stored,    \* email_messages, by message_id
    contacts,  \* <<person, runner that filed them>>
    threads,   \* <<root, runner that opened the thread>>
    mirrors,   \* <<message, runner>>: interactions written for leads
    pc,
    from,      \* runner: last_uid, the cursor it read
    last,      \* runner: the last UID of its batch
    at,        \* runner: the UID it is at
    reached,   \* runner: committed_uid
    blocked,   \* runner: a mail was left behind, the cursor stays before it
    met,       \* met[n]: runners that were working while n was
    dropped,   \* leads whose interaction was given up
    failures

crm   == <<stored, contacts, threads, mirrors>>
local == <<from, last, at, reached, blocked>>
ghost == <<met, dropped, failures>>
vars  == <<arrived, cursor, crm, pc, local, ghost>>

Working == {"searching", "fetching", "matching", "filing", "threading",
            "opening", "storing", "mirroring"}

\* The message a runner is handling.
Current(n) == Mailbox[at[n]]

\* From the fetch of a mail to its last write.
Handling == Working \ {"searching", "fetching"}

TypeOK ==
    /\ arrived \in 0..Count
    /\ cursor \in 0..arrived
    /\ stored \subseteq Messages
    /\ contacts \subseteq Persons \X Runners
    /\ threads \subseteq Roots \X Runners
    /\ mirrors \subseteq Messages \X Runners
    /\ pc \in [Runners -> {"idle"} \cup Working]
    /\ from \in [Runners -> 0..arrived]
    /\ last \in [Runners -> 0..arrived]
    /\ at \in [Runners -> 1..(arrived + 1)]
    /\ \A n \in Runners :
         /\ pc[n] \in Handling => at[n] <= last[n]
         /\ pc[n] = "filing" => SenderOf[Current(n)] \in Persons
    /\ reached \in [Runners -> 0..arrived]
    /\ blocked \in [Runners -> BOOLEAN]
    /\ met \in [Runners -> SUBSET Runners]
    /\ dropped \subseteq Messages
    /\ failures \in 0..MaxFailures

Init ==
    /\ arrived = 0
    /\ cursor = 0
    /\ stored = {}
    /\ contacts = {}
    /\ threads = {}
    /\ mirrors = {}
    /\ pc = [n \in Runners |-> "idle"]
    /\ from = [n \in Runners |-> 0]
    /\ last = [n \in Runners |-> 0]
    /\ at = [n \in Runners |-> 1]
    /\ reached = [n \in Runners |-> 0]
    /\ blocked = [n \in Runners |-> FALSE]
    /\ met = [n \in Runners |-> {}]
    /\ dropped = {}
    /\ failures = 0

-------------------------------------------------------------------------------
(* Helpers                                                                 *)

Goto(n, to) == pc' = [pc EXCEPT ![n] = to]

\* Something fails in passing, at most MaxFailures times.
Failing ==
    /\ failures < MaxFailures
    /\ failures' = failures + 1

\* Mistakes the runs must notice: a cursor that moves past what was left
\* behind, no unique index, a lookup that never matches, a mirror only for
\* runs that have left nothing behind, a batch longer than the search, and one
\* that is a mail short.
ReachAnyway(n)    == at[n]
StoreAnything(i)  == i \notin Undated
NeverFiled(p)     == FALSE
BatchShort(n)     ==
    IF from[n] + Batch <= arrived THEN from[n] + Batch - 1 ELSE arrived
MirrorInOrder(n) == Current(n) \in Leads /\ ~blocked[n]
BatchUncut(n)     == from[n] + Batch

\* The last of the UIDs a run takes: Batch of those above the cursor.
BatchEnd(n) ==
    IF from[n] + Batch <= arrived THEN from[n] + Batch ELSE arrived

\* The mail is behind the runner, stored: committed_uid follows unless blocked.
ReachedAfter(n) == IF blocked[n] THEN reached[n] ELSE at[n]

\* Does the lookup find the person?  One who gave only a name is not looked up,
\* whatever is on file.
Filed(p)  == p \notin NameOnly /\ \E k \in Runners : <<p, k>> \in contacts

\* Is the thread on file?
Opened(r) == \E k \in Runners : <<r, k>> \in threads

\* UNIQUE (account_id, message_id), and sent_at NOT NULL.
Insertable(i) == i \notin Undated /\ i \notin stored

\* The mail is stored as a lead: its interaction is next.
ForTimeline(n) == Current(n) \in Leads

\* On to the next mail, with this one stored or left behind.
Advance(n) ==
    /\ Goto(n, "fetching")
    /\ at' = [at EXCEPT ![n] = @ + 1]
    /\ reached' = [reached EXCEPT ![n] = ReachedAfter(n)]
    /\ UNCHANGED <<from, last, blocked>>

LeaveBehind(n) ==
    /\ Goto(n, "fetching")
    /\ at' = [at EXCEPT ![n] = @ + 1]
    /\ blocked' = [blocked EXCEPT ![n] = TRUE]
    /\ UNCHANGED <<from, last, reached>>

\* The call is over and its variables are gone.
Forget(n) ==
    /\ Goto(n, "idle")
    /\ from' = [from EXCEPT ![n] = 0]
    /\ last' = [last EXCEPT ![n] = 0]
    /\ at' = [at EXCEPT ![n] = 1]
    /\ reached' = [reached EXCEPT ![n] = 0]
    /\ blocked' = [blocked EXCEPT ![n] = FALSE]

-------------------------------------------------------------------------------
(* The runner                                                              *)

\* A fire of the job: _ensure_account reads the row, cursor included.
Start(n) ==
    LET working == {k \in Runners : pc[k] # "idle"} IN
    /\ pc[n] = "idle"
    /\ Goto(n, "searching")
    /\ from' = [from EXCEPT ![n] = cursor]
    /\ met' = [k \in Runners |->
                 IF k = n THEN met[k] \cup working
                 ELSE IF k \in working THEN met[k] \cup {n} ELSE met[k]]
    /\ UNCHANGED <<arrived, cursor, crm, last, at, reached, blocked, dropped,
                   failures>>

Search(n) ==
    /\ pc[n] = "searching"
    /\ Goto(n, "fetching")
    /\ last' = [last EXCEPT ![n] = BatchEnd(n)]
    /\ at' = [at EXCEPT ![n] = from[n] + 1]
    /\ reached' = [reached EXCEPT ![n] = from[n]]
    /\ UNCHANGED <<arrived, cursor, crm, from, blocked, ghost>>

\* A fetch that is not OK leaves the mail behind.
Fetch(n) ==
    /\ pc[n] = "fetching"
    /\ at[n] <= last[n]
    /\ \/ Goto(n, "matching") /\ UNCHANGED <<local, failures>>
       \/ LeaveBehind(n) /\ Failing
    /\ UNCHANGED <<arrived, cursor, crm, met, dropped>>

\* The lookup of _match_or_create_contact, by phone and then by address; with
\* neither it goes straight to the insert.
MatchContact(n) ==
    LET p == SenderOf[Current(n)] IN
    /\ pc[n] = "matching"
    /\ \/ Goto(n, "threading") /\ (p = None \/ Filed(p))
       \/ Goto(n, "filing") /\ p # None /\ ~Filed(p)
    /\ UNCHANGED <<arrived, cursor, crm, local, ghost>>

\* Its insert: no index forbids a second contact.
FileContact(n) ==
    /\ pc[n] = "filing"
    /\ Goto(n, "threading")
    /\ contacts' = contacts \cup {<<SenderOf[Current(n)], n>>}
    /\ UNCHANGED <<arrived, cursor, stored, threads, mirrors, local, ghost>>

FindThread(n) ==
    LET r == RootOf[Current(n)] IN
    /\ pc[n] = "threading"
    /\ \/ Goto(n, "storing") /\ Opened(r)
       \/ Goto(n, "opening") /\ ~Opened(r)
    /\ UNCHANGED <<arrived, cursor, crm, local, ghost>>

OpenThread(n) ==
    /\ pc[n] = "opening"
    /\ Goto(n, "storing")
    /\ threads' = threads \cup {<<RootOf[Current(n)], n>>}
    /\ UNCHANGED <<arrived, cursor, stored, contacts, mirrors, local, ghost>>

\* The insert of the message: it is new; it is on file already, which is as
\* good; it is refused, now or always; or the answer of the insert is lost.
StoreMessage(n) ==
    LET i == Current(n) IN
    /\ pc[n] = "storing"
    /\ \/ /\ Insertable(i)
          /\ stored' = stored \cup {i}
          /\ \/ ForTimeline(n) /\ Goto(n, "mirroring") /\ UNCHANGED local
             \/ ~ForTimeline(n) /\ Advance(n)
          /\ UNCHANGED <<dropped, failures>>
       \/ /\ i \notin Undated /\ ~Insertable(i)
          /\ Advance(n)
          /\ UNCHANGED <<stored, dropped, failures>>
       \/ /\ i \in Undated
          /\ LeaveBehind(n)
          /\ UNCHANGED <<stored, dropped, failures>>
       \/ /\ Failing
          /\ LeaveBehind(n)
          /\ UNCHANGED <<stored, dropped>>
       \/ /\ Failing
          /\ Insertable(i)
          /\ stored' = stored \cup {i}
          /\ dropped' = IF i \in Leads THEN dropped \cup {i} ELSE dropped
          /\ LeaveBehind(n)
    /\ UNCHANGED <<arrived, cursor, contacts, threads, mirrors, met>>

\* _log_lead_interaction: the interaction, its participant, its property.  An
\* error, before the first of the rows or after it, is only logged.
MirrorLead(n) ==
    LET row == <<Current(n), n>> IN
    /\ pc[n] = "mirroring"
    /\ \/ /\ mirrors' = mirrors \cup {row}
          /\ UNCHANGED <<dropped, failures>>
       \/ /\ Failing
          /\ mirrors' \in {mirrors, mirrors \cup {row}}
          /\ dropped' = dropped \cup {Current(n)}
    /\ Advance(n)
    /\ UNCHANGED <<arrived, cursor, stored, contacts, threads, met>>

\* The batch is done: the cursor is written, whatever it has become.
WriteCursor(n) ==
    /\ pc[n] = "fetching"
    /\ at[n] > last[n]
    /\ Forget(n)
    /\ cursor' = reached[n]
    /\ UNCHANGED <<arrived, crm, ghost>>

\* A search that is not OK, an exception out of any call that is not guarded,
\* or the end of the instance: the cursor stays where it was.
Abort(n) ==
    /\ pc[n] # "idle"
    /\ Failing
    /\ Forget(n)
    /\ dropped' = IF pc[n] = "mirroring" THEN dropped \cup {Current(n)}
                                         ELSE dropped
    /\ UNCHANGED <<arrived, cursor, crm, met>>

-------------------------------------------------------------------------------
Arrive ==
    /\ arrived < Count
    /\ arrived' = arrived + 1
    /\ UNCHANGED <<cursor, crm, pc, local, ghost>>

Run(n) ==
    \/ Start(n)        \/ Search(n)       \/ Fetch(n)
    \/ MatchContact(n) \/ FileContact(n)  \/ FindThread(n) \/ OpenThread(n)
    \/ StoreMessage(n) \/ MirrorLead(n)   \/ WriteCursor(n)

Next ==
    \/ \E n \in Runners : Run(n) \/ Abort(n)
    \/ Arrive

\* The job keeps being fired and a runner that does not end proceeds.
Fairness == \A n \in Runners : WF_vars(Run(n))

Spec == Init /\ [][Next]_vars /\ Fairness

-------------------------------------------------------------------------------
(* Properties                                                              *)

\* The cursor never passes a mail that is not stored, whatever failed, and
\* however runs overlap and overwrite each other's cursor: this is the loss of
\* leads the comment at sync.py:223 speaks of.
CursorCovers == \A u \in 1..cursor : Mailbox[u] \in stored

\* However often a mail is fetched, its lead enters the timeline once.
MirroredOnce ==
    \A a, b \in mirrors : a[1] = b[1] => a = b

\* A person who can be looked up is filed twice, or a thread opened twice, only
\* by two runs that overlapped: runs that follow each other, retries included,
\* find what the earlier one filed.  It says nothing of a person with a name only:
\* sync.py:101-124 files that one again with every mail and with every retry.
DuplicatesOverlap ==
    /\ \A a, b \in contacts :
           a[1] = b[1] /\ a[1] \notin NameOnly /\ a # b => a[2] \in met[b[2]]
    /\ \A a, b \in threads : a[1] = b[1] /\ a # b => a[2] \in met[b[2]]

\* A lead that is stored is in the timeline, or about to be, or was given up by
\* a failure of that very mail: mails left behind before it do not cost it.
LeadReachesTimeline ==
    \A i \in stored \cap Leads :
        \/ \E k \in Runners : <<i, k>> \in mirrors
        \/ \E n \in Runners : pc[n] = "mirroring" /\ Current(n) = i
        \/ i \in dropped

\* A mail that can be stored is stored in the end, one that was left behind and
\* those after it included, as long as it is within a batch of every mail before
\* it that is refused for good.  The comment at sync.py:223-226 has "every UID
\* after it" retried next run, and that is not so beyond the batch: the cursor
\* stays before the refused mail, every search takes the same Batch mails, and a
\* mail further on is never fetched.
Within(u) ==
    Mailbox[u] \notin Undated
    /\ \A b \in 1..u : Mailbox[b] \in Undated => u - b < Batch

StorableStored ==
    \A u \in Uids : u <= arrived /\ Within(u) ~> Mailbox[u] \in stored

\* The leads whose interaction a run is about to write.
Waiting == {Current(n) : n \in {k \in Runners : pc[k] = "mirroring"}}

Mail == INSTANCE Intake WITH Writers <- Runners, waiting <- Waiting,
                             shown <- mirrors

\* However runs overlap, fail and start again, a mail is stored once, a lead
\* leaves the wait for its interaction once, with one or without, and the cursor
\* is written only where everything up to it is stored.
IntakeSpec == Mail!Spec

\* A lead that is stored and does not wait for its interaction, because it has it
\* or was given up, never waits for one again.
NoSecondWait == [][(stored \ Waiting) \cap Waiting' = {}]_vars
===============================================================================
