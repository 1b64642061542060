----------------------------- MODULE ClientAgent ------------------------------
(***************************************************************************)
(* What happens to the WhatsApp messages of one phone number, from the     *)
(* webhook (integrations/kapso/webhook.py) through the assistant that      *)
(* answers clients (channels/client_agent.py) to the outbound path         *)
(* (notifications/whatsapp/dispatcher.py), while brokers use the inbox     *)
(* (channels/router_api.py).                                               *)
(*                                                                         *)
(* The provider delivers an event at least once and to any instance.  A    *)
(* delivery is one call of the webhook with the background task it starts; *)
(* a broker is one who uses the inbox.  A step is one call to the database *)
(* or to the provider; the calls of the model that write nothing are part  *)
(* of the step that uses their answer.                                     *)
(*                                                                         *)
(* Ghost variables: promised, told, quieted and seen record history for   *)
(* the properties and guard nothing.                                       *)
(***************************************************************************)
EXTENDS Integers

CONSTANTS
    Messages,    \* what the person writes, by external_message_id
    OptOuts,     \* the messages that ask to be left alone
    Events,      \* webhook events, by idempotency key
    MessageOf,   \* MessageOf[e]: the message an event carries
    Deliveries,  \* webhook calls; also the name of the thread a call opens
    Brokers,
    None

ASSUME ConstantsAssumption ==
    /\ OptOuts \subseteq Messages
    /\ MessageOf \in [Events -> Messages]
    /\ None \notin Deliveries \cup Events

VARIABLES
    events,    \* kapso_webhook_events, by external_event_id
    inbound,   \* inbound rows of client_messages, by external_message_id
    threads,   \* client_conversations of this number
    linked,    \* the threads that carry the contact_id
    mode,      \* who answers a thread: the model, a broker, or nobody yet
    lastAt,    \* last_message_at of a thread
    clock,
    known,     \* the number is filed under the contact
    consent,   \* client_consents of the contact for whatsapp
    reply,     \* reply[d]: the outbound row written by delivery d
    pc, event,
    found,     \* delivery: _find_contact_by_phone found the contact
    thread,    \* delivery: the thread of the message
    modeRead,  \* delivery: mode of that thread when it was read
    rowRead,   \* delivery and broker: a row of consent existed when read
    bpc, bthread,
    promised,  \* an opt-out was acknowledged, and no broker granted since
    told,      \* deliveries that began while promised, no grant since
    quieted,   \* began while the contact, known, was opted out, no grant since
    seen       \* delivery that opened a thread: the threads at its lookup

inbox    == <<inbound, threads, linked, mode, lastAt, clock>>
person   == <<known, consent>>
local    == <<event, found, thread, modeRead>>
broker   == <<bpc, bthread>>
ghost    == <<promised, told, quieted, seen>>
vars     == <<events, inbox, person, reply, pc, local, rowRead, broker, ghost>>

Working == {"checking", "finding", "threading", "opening", "storing",
            "touching", "readingOptOut", "optingOut", "consenting", "optingIn",
            "answering", "dispatching", "gating", "recording", "sending",
            "confirming"}

\* refused: answered 401.
Ended == {"done", "failed", "refused"}

TypeOK ==
    /\ events \subseteq Events
    /\ inbound \subseteq Messages
    /\ threads \subseteq Deliveries
    /\ linked \subseteq threads
    /\ mode \in [Deliveries -> {"ai", "taken", "flagged"}]
    /\ lastAt \in [Deliveries -> Nat]
    /\ clock \in Nat
    /\ known \in BOOLEAN
    /\ consent \in {"none", "in", "out"}
    /\ reply \in [Deliveries -> {"none", "queued", "sent"}]
    /\ pc \in [Deliveries -> {"idle"} \cup Ended \cup Working]
    /\ event \in [Deliveries -> Events \cup {None}]
    /\ \A d \in Deliveries : pc[d] \in Working => event[d] \in Events
    /\ found \in [Deliveries -> BOOLEAN]
    /\ thread \in [Deliveries -> Deliveries \cup {None}]
    /\ modeRead \in [Deliveries -> {"ai", "taken", "flagged"}]
    /\ rowRead \in [Deliveries \cup Brokers -> BOOLEAN]
    /\ bpc \in [Brokers -> {"idle", "granting", "filing", "linking"}]
    /\ bthread \in [Brokers -> Deliveries \cup {None}]
    /\ \A b \in Brokers : bpc[b] \in {"filing", "linking"} => bthread[b] \in threads
    /\ promised \in BOOLEAN
    /\ told \subseteq Deliveries
    /\ quieted \subseteq Deliveries
    /\ seen \in [Deliveries -> SUBSET Deliveries]

\* The contact may already be on file with this number, and have consented.
Init ==
    /\ events = {}
    /\ inbound = {}
    /\ threads = {}
    /\ linked = {}
    /\ mode = [d \in Deliveries |-> "ai"]
    /\ lastAt = [d \in Deliveries |-> 0]
    /\ clock = 0
    /\ known \in BOOLEAN
    /\ consent \in {"none", "in"}
    /\ reply = [d \in Deliveries |-> "none"]
    /\ pc = [d \in Deliveries |-> "idle"]
    /\ event = [d \in Deliveries |-> None]
    /\ found = [d \in Deliveries |-> FALSE]
    /\ thread = [d \in Deliveries |-> None]
    /\ modeRead = [d \in Deliveries |-> "ai"]
    /\ rowRead = [x \in Deliveries \cup Brokers |-> FALSE]
    /\ bpc = [b \in Brokers |-> "idle"]
    /\ bthread = [b \in Brokers |-> None]
    /\ promised = FALSE
    /\ told = {}
    /\ quieted = {}
    /\ seen = [d \in Deliveries |-> {}]

-------------------------------------------------------------------------------
(* Helpers                                                                 *)

Goto(d, from, to) ==
    /\ pc[d] = from
    /\ pc' = [pc EXCEPT ![d] = to]

Message(d) == MessageOf[event[d]]

\* is_opt_out_request; the reply to it is sent under a consent waiver.
Waived(d) == Message(d) \in OptOuts

\* Mistakes the runs must notice: no unique index under the dedupe check, rows
\* written by upsert, a revoked row that counts as consent, a thread looked up
\* by contact only, a column taken for the decision it leads to.
StoreUnchecked(d)  == TRUE
Upsertable(x)      == TRUE
AnyRow             == consent # "none"
LinkedOnly(c)      == linked
AnsweringByMode(d) == modeRead[d]

\* uniq_client_msgs_external: what the insert of the inbound row must satisfy.
Storable(d) == Message(d) \notin inbound

\* UNIQUE (tenant_id, contact_id, channel): a row can be inserted.
Insertable(x) == consent = "none"

\* has_consent.
HasConsent == consent = "in"

\* The threads _ensure_conversation considers: those of the contact, or those
\* of the number that belong to nobody.
Matching(c) == IF c THEN linked ELSE threads \ linked

\* Order by last_message_at desc, limit 1.
Latest(t, S) == t \in S /\ \A u \in S : lastAt[u] <= lastAt[t]

-------------------------------------------------------------------------------
(* The webhook                                                             *)

\* _persist_event claims the idempotency key; the 200 is sent and the rest of
\* the delivery is background work.
PersistEvent(d, e) ==
    /\ Goto(d, "idle", "checking")
    /\ e \notin events
    /\ events' = events \cup {e}
    /\ event' = [event EXCEPT ![d] = e]
    /\ told' = IF promised THEN told \cup {d} ELSE told
    /\ quieted' = IF known /\ consent = "out" THEN quieted \cup {d} ELSE quieted
    /\ UNCHANGED <<inbox, person, reply, found, thread, modeRead, rowRead,
                   broker, promised, seen>>

\* The signature does not verify, as when the secret is being changed.  The call
\* is answered 401, but its row is kept for forensics and claims the key all the
\* same: the delivery that comes with a good signature is then a duplicate.  So is
\* the next delivery after an insert that was done and whose answer was lost.
RefuseSignature(d, e) ==
    /\ Goto(d, "idle", "refused")
    /\ e \notin events
    /\ events' = events \cup {e}
    /\ event' = [event EXCEPT ![d] = e]
    /\ UNCHANGED <<inbox, person, reply, found, thread, modeRead, rowRead,
                   broker, ghost>>

\* The insert meets the unique index, or fails for another reason: either way
\* the work is not begun, and the provider is answered "duplicate", or 401 if the
\* signature was bad.
AnswerDuplicate(d, e) ==
    /\ Goto(d, "idle", "done")
    /\ event' = [event EXCEPT ![d] = e]
    /\ UNCHANGED <<events, inbox, person, reply, found, thread, modeRead,
                   rowRead, broker, ghost>>

\* A call raises (process_error is all that remains of it), or the instance
\* goes away.
Fail(d) ==
    /\ pc[d] \in Working
    /\ Goto(d, pc[d], "failed")
    /\ UNCHANGED <<events, inbox, person, reply, local, rowRead, broker, ghost>>

-------------------------------------------------------------------------------
(* handle_inbound_client                                                   *)

CheckDuplicate(d) ==
    /\ \/ Goto(d, "checking", "done") /\ Message(d) \in inbound
       \/ Goto(d, "checking", "finding") /\ Message(d) \notin inbound
    /\ UNCHANGED <<events, inbox, person, reply, local, rowRead, broker, ghost>>

FindContact(d) ==
    /\ Goto(d, "finding", "threading")
    /\ found' = [found EXCEPT ![d] = known]
    /\ UNCHANGED <<events, inbox, person, reply, event, thread, modeRead,
                   rowRead, broker, ghost>>

\* The select of _ensure_conversation.
FindThread(d) ==
    \/ /\ Goto(d, "threading", "storing")
       /\ \E t \in threads :
              /\ Latest(t, Matching(found[d]))
              /\ thread' = [thread EXCEPT ![d] = t]
              /\ modeRead' = [modeRead EXCEPT ![d] = mode[t]]
       /\ UNCHANGED <<events, inbox, person, reply, event, found, rowRead,
                      broker, ghost>>
    \/ /\ Goto(d, "threading", "opening")
       /\ Matching(found[d]) = {}
       /\ seen' = [seen EXCEPT ![d] = threads]
       /\ UNCHANGED <<events, inbox, person, reply, local, rowRead, broker,
                      promised, told, quieted>>

\* Its insert: no index forbids a second thread.
OpenThread(d) ==
    /\ Goto(d, "opening", "storing")
    /\ threads' = threads \cup {d}
    /\ linked' = IF found[d] THEN linked \cup {d} ELSE linked
    /\ clock' = clock + 1
    /\ lastAt' = [lastAt EXCEPT ![d] = clock']
    /\ thread' = [thread EXCEPT ![d] = d]
    /\ UNCHANGED <<events, inbound, mode, person, reply, event, found,
                   modeRead, rowRead, broker, ghost>>

StoreInbound(d) ==
    \/ /\ Goto(d, "storing", "touching")
       /\ Storable(d)
       /\ inbound' = inbound \cup {Message(d)}
       /\ UNCHANGED <<events, threads, linked, mode, lastAt, clock, person,
                      reply, local, rowRead, broker, ghost>>
    \/ /\ Goto(d, "storing", "failed")
       /\ ~Storable(d)
       /\ UNCHANGED <<events, inbox, person, reply, local, rowRead, broker,
                      ghost>>

\* Where the delivery goes once consent is settled: a thread a human holds, as
\* it was when it was read, is left to the human.
Answering(d) == IF modeRead[d] = "ai" THEN "answering" ELSE "done"

\* last_message_at of the thread; then the message decides.
TouchThread(d) ==
    /\ Goto(d, "touching",
            IF Waived(d) THEN IF found[d] THEN "readingOptOut" ELSE "dispatching"
            ELSE IF found[d] THEN "consenting" ELSE Answering(d))
    /\ clock' = clock + 1
    /\ lastAt' = [lastAt EXCEPT ![thread[d]] = clock']
    /\ UNCHANGED <<events, inbound, threads, linked, mode, person, reply, local,
                   rowRead, broker, ghost>>

\* _record_opt_out: is there a row?
ReadOptOut(d) ==
    /\ Goto(d, "readingOptOut", "optingOut")
    /\ rowRead' = [rowRead EXCEPT ![d] = consent # "none"]
    /\ UNCHANGED <<events, inbox, person, reply, local, broker, ghost>>

\* Update the row, or insert one: the insert raises when another got there.
WriteOptOut(d) ==
    \/ /\ Goto(d, "optingOut", "dispatching")
       /\ rowRead[d] \/ Insertable(d)
       /\ consent' = "out"
       /\ UNCHANGED <<events, inbox, known, reply, local, rowRead, broker, ghost>>
    \/ /\ Goto(d, "optingOut", "failed")
       /\ ~rowRead[d] /\ ~Insertable(d)
       /\ UNCHANGED <<events, inbox, person, reply, local, rowRead, broker,
                      ghost>>

\* _record_inbound_consent: a row says in or out, and is left as it is.  (No
\* writer leaves both dates empty, so the third case of the code never arises.)
ReadConsent(d) ==
    /\ \/ consent = "none" /\ Goto(d, "consenting", "optingIn")
       \/ consent # "none" /\ Goto(d, "consenting", Answering(d))
    /\ rowRead' = [rowRead EXCEPT ![d] = consent # "none"]
    /\ UNCHANGED <<events, inbox, person, reply, local, broker, ghost>>

WriteOptIn(d) ==
    \/ /\ Goto(d, "optingIn", Answering(d))
       /\ Insertable(d)
       /\ consent' = "in"
       /\ UNCHANGED <<events, inbox, known, reply, local, rowRead, broker, ghost>>
    \/ /\ Goto(d, "optingIn", "failed")
       /\ ~Insertable(d)
       /\ UNCHANGED <<events, inbox, person, reply, local, rowRead, broker,
                      ghost>>

\* ai_enabled := false, by _flag_for_handoff.
Flag(t) == mode' = [mode EXCEPT ![t] = IF @ = "ai" THEN "flagged" ELSE @]

\* The model answers and the answer passes; or a guard refuses it and a human
\* is called; or the output policy replaces it and a human is called.
Generate(d) ==
    \/ /\ Goto(d, "answering", "dispatching")
       /\ UNCHANGED <<events, inbox, person, reply, local, rowRead, broker,
                      ghost>>
    \/ /\ Goto(d, "answering", "done") \/ Goto(d, "answering", "dispatching")
       /\ Flag(thread[d])
       /\ UNCHANGED <<events, inbound, threads, linked, lastAt, clock, person,
                      reply, local, rowRead, broker, ghost>>

-------------------------------------------------------------------------------
(* send_freeform_to_conversation                                           *)

\* It reads the thread anew.  A thread without a contact has no consent to
\* check.  The window of 24 hours is open: the message was just stored.
ReadThread(d) ==
    /\ Goto(d, "dispatching",
            IF thread[d] \in linked THEN "gating" ELSE "recording")
    /\ UNCHANGED <<events, inbox, person, reply, local, rowRead, broker, ghost>>

\* ConsentError is not a failure: nothing is sent.
CheckConsent(d) ==
    /\ Goto(d, "gating", IF HasConsent \/ Waived(d) THEN "recording" ELSE "done")
    /\ UNCHANGED <<events, inbox, person, reply, local, rowRead, broker, ghost>>

RecordOutbound(d) ==
    /\ Goto(d, "recording", "sending")
    /\ reply' = [reply EXCEPT ![d] = "queued"]
    /\ UNCHANGED <<events, inbox, person, local, rowRead, broker, ghost>>

\* The provider takes the message, or the call raises, which _send_reply logs:
\* the row stays queued, whether or not the message went out.
Send(d) ==
    \/ /\ Goto(d, "sending", "confirming")
       /\ promised' = (promised \/ Waived(d))
       /\ UNCHANGED <<events, inbox, person, reply, local, rowRead, broker,
                      told, quieted, seen>>
    \/ /\ Goto(d, "sending", "done")
       /\ UNCHANGED <<events, inbox, person, reply, local, rowRead, broker,
                      ghost>>

ConfirmSent(d) ==
    /\ Goto(d, "confirming", "done")
    /\ reply' = [reply EXCEPT ![d] = "sent"]
    /\ UNCHANGED <<events, inbox, person, local, rowRead, broker, ghost>>

-------------------------------------------------------------------------------
(* The inbox                                                               *)

BGoto(b, from, to) ==
    /\ bpc[b] = from
    /\ bpc' = [bpc EXCEPT ![b] = to]

\* update_conversation: a broker takes a thread, or gives it to the model.
PatchThread(t) ==
    /\ t \in threads
    /\ \E to \in {"taken", "ai"} : mode' = [mode EXCEPT ![t] = to]
    /\ UNCHANGED <<events, inbound, threads, linked, lastAt, clock, person,
                   reply, pc, local, rowRead, broker, ghost>>

\* upsert_consent: read, then update or insert.
ReadGrant(b) ==
    /\ BGoto(b, "idle", "granting")
    /\ rowRead' = [rowRead EXCEPT ![b] = consent # "none"]
    /\ UNCHANGED <<events, inbox, person, reply, pc, local, bthread, ghost>>

WriteGrant(b) ==
    /\ BGoto(b, "granting", "idle")
    /\ \/ /\ rowRead[b] \/ Insertable(b)
          /\ consent' = "in"
          /\ promised' = FALSE
          /\ told' = {}
          /\ quieted' = {}
       \/ /\ ~rowRead[b] /\ ~Insertable(b)
          /\ UNCHANGED <<consent, promised, told, quieted>>
    /\ UNCHANGED <<events, inbox, known, reply, pc, local, rowRead, bthread,
                   seen>>

\* revoke_consent: one UPDATE, which matches nothing when there is no row.
Revoke(b) ==
    /\ bpc[b] = "idle"
    /\ consent # "none"
    /\ consent' = "out"
    /\ UNCHANGED <<events, inbox, known, reply, pc, local, rowRead, broker,
                   ghost>>

\* link_conversation_contact: the thread and the contact are read, the number
\* is filed under the contact, and the thread is pointed at it.
ReadLink(b, t) ==
    /\ t \in threads
    /\ BGoto(b, "idle", "filing")
    /\ bthread' = [bthread EXCEPT ![b] = t]
    /\ UNCHANGED <<events, inbox, person, reply, pc, local, rowRead, ghost>>

FileNumber(b) ==
    /\ BGoto(b, "filing", "linking")
    /\ known' = TRUE
    /\ UNCHANGED <<events, inbox, consent, reply, pc, local, rowRead, bthread,
                   ghost>>

LinkThread(b) ==
    /\ BGoto(b, "linking", "idle")
    /\ linked' = linked \cup {bthread[b]}
    /\ bthread' = [bthread EXCEPT ![b] = None]
    /\ UNCHANGED <<events, inbound, threads, mode, lastAt, clock, person, reply,
                   pc, local, rowRead, ghost>>

-------------------------------------------------------------------------------
Deliver(d) ==
    \/ \E e \in Events : \/ PersistEvent(d, e) \/ RefuseSignature(d, e)
                        \/ AnswerDuplicate(d, e)
    \/ CheckDuplicate(d) \/ FindContact(d) \/ FindThread(d) \/ OpenThread(d)
    \/ StoreInbound(d)   \/ TouchThread(d)
    \/ ReadOptOut(d)     \/ WriteOptOut(d)
    \/ ReadConsent(d)    \/ WriteOptIn(d)  \/ Generate(d)
    \/ ReadThread(d)     \/ CheckConsent(d)
    \/ RecordOutbound(d) \/ Send(d)        \/ ConfirmSent(d)
    \/ Fail(d)

Broker(b) ==
    \/ ReadGrant(b) \/ WriteGrant(b) \/ Revoke(b)
    \/ \E t \in Deliveries : ReadLink(b, t)
    \/ FileNumber(b) \/ LinkThread(b)

Next ==
    \/ \E d \in Deliveries : Deliver(d)
    \/ \E b \in Brokers : Broker(b)
    \/ \E t \in Deliveries : PatchThread(t)

Spec == Init /\ [][Next]_vars

-------------------------------------------------------------------------------
(* Properties                                                              *)

\* However often an event or a message is delivered, and however the calls
\* overlap, a message is answered at most once.
AnsweredOnce ==
    \A d, k \in Deliveries :
        /\ d # k
        /\ reply[d] # "none"
        /\ reply[k] # "none"
        => Message(d) # Message(k)

\* Only a broker's grant ends an opt-out: no message of the person, handled at
\* whatever moment, is counted as a renewed consent.
OptOutStands ==
    [][consent = "out" /\ consent' # "out"
           => \E b \in Brokers : WriteGrant(b)]_vars

\* Once a person on file has opted out, the messages that arrive from then on
\* get no answer of the model until a broker records a new consent, whatever
\* thread they land in.
SilenceKept ==
    \A d \in quieted : reply[d] # "none" => Waived(d)

\* Messages of an unidentified number land in one place: two threads that
\* nobody identified were opened by deliveries neither of which could see the
\* thread of the other.
StrayThreadsOverlap ==
    \A a, b \in threads \ linked : a # b => a \notin seen[b]

\* What OPT_OUT_REPLY tells the person: no more messages.
AcknowledgementHolds ==
    \A d \in told : reply[d] # "none" => Waived(d)

\* The deliveries whose message is not stored yet, by pc.
Unstored == {"checking", "finding", "threading", "opening", "storing"}

\* The events at those deliveries, at the failed, and at those that claimed their
\* event and were refused (or did not learn that they had claimed it); the
\* messages answered.
Open     == {event[d] : d \in {k \in Deliveries : pc[k] \in Unstored}}
Raised   == {event[d] : d \in {k \in Deliveries : pc[k] = "failed"}}
Refused  == {event[d] : d \in {k \in Deliveries : pc[k] = "refused"}}
Queued   == {Message(d) : d \in {k \in Deliveries : reply[k] = "queued"}}
Sent     == {Message(d) : d \in {k \in Deliveries : reply[k] = "sent"}}
Granting == {b \in Brokers : bpc[b] = "granting"}

Letters == INSTANCE Correspondence WITH
    claimed <- events, open <- Open, raised <- Raised, refused <- Refused,
    received <- inbound, queued <- Queued, sent <- Sent, granting <- Granting

\* The channel implements the correspondence: an event that was claimed loses its
\* message only if the work on it raised, or if the call that claimed it was
\* refused for its signature, or never learnt of its claim; a message is stored
\* once and answered at most once, after it was stored; and what the person writes, handled at whatever moment,
\* never ends an opt-out: only a broker's grant does.
CorrespondenceSpec == Letters!Spec

\* Of every event that was claimed the message is stored, or the delivery that
\* claimed it is on its way to store it, or raised or ended with its instance, or
\* was refused for its signature or lost the answer: the next deliveries of the event are answered
\* as duplicates, and add no other way to lose it.  ("Already processed", says
\* the webhook of a duplicate: the last two cases are not.)
ClaimsAccounted ==
    \A e \in events : MessageOf[e] \in inbound \/ e \in Open \cup Raised \cup Refused
===============================================================================
